---------------------------- MODULE Spec2Model ----------------------------
(***************************************************************************)
(* The incremental knowledge pipeline of experiments/augi-engine-v0/backend *)
(* (main.py, storage.py, atomic_extractor.py, embedder.py, distiller.py).   *)
(*                                                                          *)
(* Spec        the orchestrator main(): load, save raw, extract, embed,     *)
(*             save atomic notes, mark processed, cluster; runs may be      *)
(*             repeated and may be killed between two store writes.         *)
(* SpecDistill the distillation stage of main() (filter against the already *)
(*             distilled ids, distil, embed, save clean notes), run again   *)
(*             and again on a store whose atomic tier may grow in between.  *)
(* SpecSection    one call of extract_section_ideas, in both extractors.    *)
(* SpecDistiller  distill_knowledge called on clusters of any size.         *)
(* SpecEmbed      embed_documents called on a batch of documents.           *)
(* SpecSaveAtomic save_atomic_notes called on a list of notes.              *)
(* SpecEdit       update_clean_note called between distillation runs.       *)
(* SpecCluster    cluster_documents called on the atomic tier.              *)
(* SpecDistilledIds  get_already_distilled_note_ids on a clean tier.        *)
(* SpecFallback   the fallbacks of idea extraction and deduplication.       *)
(* SpecAdjust     _adjust_parameters for a number of documents.             *)
(* SpecEmbedLarge one document embedded, in chunks when it is long.         *)
(* SpecPagesFair  get_all_atomic_notes, page by page, to its return.        *)
(* SpecRoundTrip  DistilledNote.from_dict(note.to_dict()).                  *)
(*                                                                          *)
(* The external capabilities (text generation, embedding, the vector store's*)
(* treatment of a null vector) are nondeterministic within what the calling *)
(* code can observe.                                                        *)
(***************************************************************************)
EXTENDS Naturals, Sequences, FiniteSets, TLC

VARIABLES
    corpus,           \* the documents ObsidianReader returns (unchanged between runs)
    null_ok,          \* whether the vector store accepts a row whose vector is None
    tables,           \* db.table_names()
    raw,              \* rows of the raw_documents table, in table order
    atomic,           \* rows of the atomic_notes table, in table order
    pc,               \* position of main()
    new_documents,    \* main.py: embedded_docs (new documents, with embeddings)
    unprocessed_docs, \* main.py: unprocessed_docs
    ci,               \* first index of the current chunk in unprocessed_docs
    atomic_notes,     \* main.py: atomic_notes / embedded_notes of the current chunk
    k,                \* index of the loop in progress (save raw, save atomic, mark)
    row,              \* mark_raw_document_processed: the row read before the delete
    ret,              \* value returned by the last save_raw_document call
    runs,             \* history: number of runs started
    interrupted,      \* history: some run ended before the extraction loop finished
    extracted,        \* history: ids given to the extractor so far
    again,            \* history: ids given to the extractor more than once
    notes_at_start,   \* history: size of the atomic tier when the current run started
    saved,            \* history: save_atomic_notes has returned for the current chunk
    pending,          \* history: ids whose notes a broken run saved without marking them,
                      \*          and whose chunk has not completed a cycle since
    cycled,           \* history: ids of documents of chunks whose cycle has completed
    clean,            \* clean_notes table: rows [id, atomic_note_ids]
    method,           \* config.DISTILLATION_METHOD
    geometry,         \* what the stored vectors make of the atomic tier: [n, clusters, similar]
    clusters,         \* main: clusters
    candidates,       \* main: similarity_groups, or clusters in the cluster approach
    already_distilled_ids,  \* main: already_distilled_ids
    to_distill,       \* main: groups_to_distill / clusters_to_distill
    distilled_notes,  \* main: distilled_notes
    prev_complete,    \* history: the stage run before the current one went through
    grown,            \* history: atomic notes were added since the current stage run began
    same_notes,       \* history: no atomic note was added between the last run and this
    saved_now,        \* history: clean notes saved by the current stage run
    input,            \* arguments of the call of a single operation, and what the
                      \* capabilities it uses answer
    output            \* what that call returned

env   == <<corpus, null_ok>>
store == <<tables, raw, atomic>>
local == <<new_documents, unprocessed_docs, ci, atomic_notes, k, row>>
hist  == <<runs, interrupted, extracted, again, notes_at_start, saved, pending, cycled>>

dist  == <<clean, method, geometry, clusters, candidates, already_distilled_ids,
           to_distill, distilled_notes, prev_complete, grown, same_notes, saved_now>>

fn    == <<input, output>>

vars == <<env, store, pc, local, ret, hist, dist, fn>>

----------------------------------------------------------------------------
(* Bounds of the model *)

\* number of pipeline runs in one behaviour
MaxRuns == 2
\* main.py:49 sets chunk_size = 20; the model scales the group size down so
\* that a run over the vault has more than one chunk
ChunkSize == 2

NL == "\n"
NoGeometry == [n |-> 0, clusters |-> <<>>, similar |-> {}]
NoRow == [id |-> <<>>, text |-> <<>>, is_processed |-> FALSE, vec |-> "null"]

\* The vault: a plain note, a second section of the same file with the same
\* text, a note of two paragraphs, another plain note, and a note made of a
\* paragraph break only. A corpus is the vault up to some document.
Vault ==
    << [path |-> <<"a">>, text |-> <<"x">>],
       [path |-> <<"a">>, text |-> <<"x">>],
       [path |-> <<"b">>, text |-> <<"x", NL, NL, "x">>],
       [path |-> <<"c">>, text |-> <<"x">>],
       [path |-> <<"d">>, text |-> <<NL, NL>>] >>

----------------------------------------------------------------------------
(* Sequence helpers *)

Range(s) == {s[i] : i \in 1..Len(s)}

RECURSIVE Flatten(_)
Flatten(ss) == IF ss = <<>> THEN <<>> ELSE Head(ss) \o Flatten(Tail(ss))

Count(rows, id) == Cardinality({i \in 1..Len(rows) : rows[i].id = id})

Ids(docs) == {docs[i].id : i \in 1..Len(docs)}

----------------------------------------------------------------------------
(* sources.py *)

\* sha256 of "<file_path>:<text>"; the hash is taken to be injective on the
\* combined string, which is what the id stands for here
generate_unique_doc_id(doc) == doc.path \o <<":">> \o doc.text

load_documents ==
    [i \in 1..Len(corpus) |->
        [id |-> generate_unique_doc_id(corpus[i]), text |-> corpus[i].text]]

AllIds == {generate_unique_doc_id(Vault[i]) : i \in 1..Len(Vault)}

----------------------------------------------------------------------------
(* storage.py: queries *)

get_raw_document(id) == {i \in 1..Len(raw) : raw[i].id = id}

get_new_documents(documents) ==
    IF "raw_documents" \notin tables THEN documents
    ELSE SelectSeq(documents, LAMBDA d : get_raw_document(d.id) = {})

\* the queue as it would be without the filter on the flag
all_raw_documents ==
    IF "raw_documents" \notin tables THEN <<>> ELSE raw

\* the queue as it would be if it held the documents no atomic note names
documents_without_notes ==
    IF "raw_documents" \notin tables THEN <<>>
    ELSE SelectSeq(raw, LAMBDA r :
             \A i \in 1..Len(atomic) : r.id \notin Range(atomic[i].source_doc_ids))

get_unprocessed_documents ==
    IF "raw_documents" \notin tables THEN <<>>
    ELSE SelectSeq(raw, LAMBDA r : r.is_processed = FALSE)

\* the check as it would be on the provenance of the atomic notes
has_source_in_atomic_notes(raw_doc_id) ==
    /\ "atomic_notes" \in tables
    /\ \E i \in 1..Len(atomic) : raw_doc_id \in Range(atomic[i].source_doc_ids)

has_processed_document(raw_doc_id) ==
    /\ "raw_documents" \in tables
    /\ \E i \in 1..Len(raw) : raw[i].id = raw_doc_id /\ raw[i].is_processed = TRUE

get_atomic_notes_for_raw_document(raw_doc_id) ==
    IF "atomic_notes" \notin tables THEN <<>>
    ELSE SelectSeq(atomic, LAMBDA n : raw_doc_id \in Range(n.source_doc_ids))

get_all_atomic_notes ==
    IF "atomic_notes" \notin tables THEN <<>> ELSE atomic

\* table.delete(f"id = '{doc_id}'")
DeleteById(rows, id) == SelectSeq(rows, LAMBDA r : r.id # id)

----------------------------------------------------------------------------
(* embedder.py *)

IsSpace(c) == c \in {NL, " "}

RECURSIVE lstrip(_)
lstrip(s) == IF s # <<>> /\ IsSpace(Head(s)) THEN lstrip(Tail(s)) ELSE s

RECURSIVE rstrip(_)
rstrip(s) ==
    IF s # <<>> /\ IsSpace(s[Len(s)]) THEN rstrip(SubSeq(s, 1, Len(s) - 1)) ELSE s

strip(s) == rstrip(lstrip(s))

\* embed_documents: the vectors a batch can come back with. An item whose
\* text is blank gets None; any other item gets a vector, or None when the
\* embedding call raises. blank is the set of indices with blank text.
embed_documents(n, blank) ==
    {f \in [1..n -> {"vec", "null"}] : \A i \in blank : f[i] = "null"}

----------------------------------------------------------------------------
(* atomic_extractor.py *)

\* last index of the run of newlines that starts at i
RECURSIVE RunEnd(_, _)
RunEnd(text, i) ==
    IF i < Len(text) /\ text[i + 1] = NL THEN RunEnd(text, i + 1) ELSE i

\* re.split(r"\n{2,}", text): pieces between maximal runs of two or more newlines
RECURSIVE SplitPara(_, _, _)
SplitPara(text, i, cur) ==
    IF i > Len(text) THEN <<cur>>
    ELSE IF text[i] = NL /\ RunEnd(text, i) > i
         THEN <<cur>> \o SplitPara(text, RunEnd(text, i) + 1, <<>>)
         ELSE SplitPara(text, i + 1, Append(cur, text[i]))

\* SentenceSplitter.split_text on a text shorter than one chunk: the stripped
\* text, and no chunk for a text of white space only
split_text(text) == IF strip(text) = <<>> THEN <<>> ELSE <<strip(text)>>

\* The heading, "Section" and "Topic:" markers need characters the vault's
\* texts do not hold, so the paragraph-break marker is the one that can split.
split_into_sections(text) ==
    LET sections == SplitPara(text, 1, <<>>) IN
    IF Len(sections) > 1
    THEN LET stripped == [i \in 1..Len(sections) |-> strip(sections[i])]
         IN  SelectSeq(stripped, LAMBDA s : s # <<>>)
    ELSE split_text(text)

\* An idea is "good" when it is an object with a title and a description and
\* "bad" otherwise (a key is missing, or the element is not an object).
IdeaKinds == {"good", "bad"}

\* what clean_llm_json_response can hand back as a non-empty list: here the
\* completions that list one idea
LLMIdeaLists == {<<kind>> : kind \in IdeaKinds}

create_fallback_idea(section) == <<"good">>

\* extract_section_ideas: the parsed completion when it is non-empty, the
\* fallback idea when parsing fails or the call raises
extract_section_ideas(section) == LLMIdeaLists \cup {create_fallback_idea(section)}

Raise == <<"raise">>

\* deduplicate_ideas: [] for no ideas; building ideas_context reads
\* idea['title'] and idea['description'] outside the try block, so a bad idea
\* raises; otherwise the parsed completion, or the input when that fails
deduplicate_ideas(all_ideas) ==
    IF all_ideas = <<>> THEN {<<>>}
    ELSE IF "bad" \in Range(all_ideas) THEN {Raise}
    ELSE LLMIdeaLists \cup {all_ideas}

\* the conversion loop appends a Document per idea until idea["title"] raises
RECURSIVE Converted(_, _)
Converted(ideas, doc_id) ==
    IF ideas = <<>> \/ Head(ideas) = "bad" THEN <<>>
    ELSE <<[source_doc_id |-> doc_id, vec |-> "none"]>> \o Converted(Tail(ideas), doc_id)

\* the body of the document loop of extract_atomic_ideas: the atomic
\* documents one source document can contribute
DocumentIdeas(doc) ==
    LET sections == split_into_sections(doc.text)
        per_section == {f \in [1..Len(sections) -> LLMIdeaLists \cup {<<"good">>}] :
                           \A j \in 1..Len(sections) : f[j] \in extract_section_ideas(sections[j])}
        all_ideas == {Flatten(r) : r \in per_section}
        deduplicated == UNION {deduplicate_ideas(a) : a \in all_ideas}
    IN  {<<>>}   \* generate_global_summary raises: caught at the document level
        \cup {IF d = Raise THEN <<>> ELSE Converted(d, doc.id) : d \in deduplicated}

\* extract_atomic_ideas(documents) without a store: every document is processed
extract_atomic_ideas(documents) ==
    {Flatten(r) : r \in {f \in [1..Len(documents) -> UNION {DocumentIdeas(documents[i]) : i \in 1..Len(documents)}] :
                            \A i \in 1..Len(documents) : f[i] \in DocumentIdeas(documents[i])}}

----------------------------------------------------------------------------
(* main.py: one run of the pipeline *)

Stopped == {"idle", "done", "failed", "killed"}

ChunkEnd == IF ci + ChunkSize - 1 < Len(unprocessed_docs)
            THEN ci + ChunkSize - 1 ELSE Len(unprocessed_docs)

\* _process_in_chunks: the chunk that starts at index ci
Chunk == SubSeq(unprocessed_docs, ci, ChunkEnd)

BlankIdx(docs) == {i \in 1..Len(docs) : strip(docs[i].text) = <<>>}

\* the volatile state of a run is gone when the process ends
Forget ==
    /\ new_documents' = <<>>
    /\ unprocessed_docs' = <<>>
    /\ ci' = 1
    /\ atomic_notes' = <<>>
    /\ k' = 1
    /\ row' = NoRow

\* ids of the current chunk whose notes are saved while the flag is not set yet
SavedUnmarked ==
    IF pc \in {"mark", "mark_add"} THEN {Chunk[i].id : i \in k..Len(Chunk)} ELSE {}

\* a run that ends before the extraction loop is through
Break(to) ==
    /\ pc' = to
    /\ interrupted' = TRUE
    /\ pending' = pending \cup SavedUnmarked
    /\ saved' = FALSE
    /\ Forget
    /\ UNCHANGED <<fn, dist, env, store, ret, runs, extracted, again, notes_at_start, cycled>>

\* main.py 29-39: load, keep the new documents, embed them
StartRun ==
    /\ pc \in Stopped
    /\ runs < MaxRuns
    /\ runs' = runs + 1
    /\ notes_at_start' = Len(atomic)
    /\ LET raw_documents == load_documents
           new == get_new_documents(raw_documents)
       IN  \E e \in embed_documents(Len(new), BlankIdx(new)) :
             /\ new_documents' = [i \in 1..Len(new) |->
                    [id |-> new[i].id, text |-> new[i].text, vec |-> e[i]]]
             /\ pc' = IF new = <<>> THEN "get_unprocessed" ELSE "save_raw"
    /\ k' = 1
    /\ UNCHANGED <<fn, dist, env, store, unprocessed_docs, ci, atomic_notes, row, ret,
                   interrupted, extracted, again, saved, pending, cycled>>

\* what table.add does with a row: a row with a null vector is stored or
\* refused, as the vector store of the build decides
Accepts(vec) == vec = "vec" \/ null_ok

\* save_raw_document(new_documents[k]) without the check for an existing id
SaveRawDocumentAlwaysAdds ==
    /\ pc = "save_raw"
    /\ LET document == new_documents[k] IN
       /\ "raw_documents" \notin tables => document.vec # "null"
       /\ Accepts(document.vec)
       /\ tables' = tables \cup {"raw_documents"}
       /\ raw' = Append(raw, [id |-> document.id, text |-> document.text,
                              is_processed |-> FALSE, vec |-> document.vec])
       /\ ret' = document.id
    /\ pc' = IF k = Len(new_documents) THEN "get_unprocessed" ELSE "save_raw"
    /\ k' = IF k = Len(new_documents) THEN 1 ELSE k + 1
    /\ UNCHANGED <<fn, dist, env, atomic, new_documents, unprocessed_docs, ci, atomic_notes,
                   row, hist>>

\* save_raw_document(new_documents[k]): returns the id
SaveRawDocument ==
    /\ pc = "save_raw"
    /\ LET document == new_documents[k] IN
       /\ "raw_documents" \notin tables => document.vec # "null"
       /\ get_raw_document(document.id) = {} => Accepts(document.vec)
       /\ tables' = tables \cup {"raw_documents"}
       /\ raw' = IF get_raw_document(document.id) = {}
                 THEN Append(raw, [id |-> document.id, text |-> document.text,
                                   is_processed |-> FALSE, vec |-> document.vec])
                 ELSE raw
       /\ ret' = document.id
    /\ pc' = IF k = Len(new_documents) THEN "get_unprocessed" ELSE "save_raw"
    /\ k' = IF k = Len(new_documents) THEN 1 ELSE k + 1
    /\ UNCHANGED <<fn, dist, env, atomic, new_documents, unprocessed_docs, ci, atomic_notes,
                   row, hist>>

\* save_raw_document raises: len(None) when the table is created, or the
\* store refuses the row
SaveRawDocumentRaises ==
    /\ pc = "save_raw"
    /\ LET document == new_documents[k] IN
       \/ "raw_documents" \notin tables /\ document.vec = "null"
       \/ /\ "raw_documents" \in tables
          /\ get_raw_document(document.id) = {}
          /\ ~Accepts(document.vec)
    /\ Break("failed")

\* main.py 44-50: the work queue and its first chunk
GetUnprocessed ==
    /\ pc = "get_unprocessed"
    /\ unprocessed_docs' = get_unprocessed_documents
    /\ ci' = 1
    /\ pc' = IF get_unprocessed_documents = <<>> THEN "cluster" ELSE "extract"
    /\ UNCHANGED <<fn, dist, env, store, new_documents, atomic_notes, k, row, ret, hist>>

\* main.py 52: extractor.extract_atomic_ideas(chunk)
Extract ==
    /\ pc = "extract"
    /\ \E notes \in extract_atomic_ideas(Chunk) : atomic_notes' = notes
    /\ extracted' = extracted \cup Ids(Chunk)
    /\ again' = again \cup (extracted \cap Ids(Chunk))
    /\ saved' = FALSE
    /\ pc' = "embed"
    /\ UNCHANGED <<fn, dist, env, store, new_documents, unprocessed_docs, ci, k, row, ret,
                   runs, interrupted, notes_at_start, pending, cycled>>

\* main.py 55: embedder.embed_documents(atomic_notes); save_atomic_notes of
\* an empty list returns at once
Embed ==
    /\ pc = "embed"
    /\ \E e \in embed_documents(Len(atomic_notes), {}) :
          atomic_notes' = [i \in 1..Len(atomic_notes) |->
                              [atomic_notes[i] EXCEPT !.vec = e[i]]]
    /\ k' = 1
    /\ pc' = IF atomic_notes = <<>> THEN "mark" ELSE "save_atomic"
    /\ saved' = (atomic_notes = <<>>)
    /\ UNCHANGED <<fn, dist, env, store, new_documents, unprocessed_docs, ci, row, ret,
                   runs, interrupted, extracted, again, notes_at_start, pending,
                   cycled>>

\* storage.py 194-195: [source_doc_id] if source_doc_id else []
source_doc_ids(note) ==
    IF note.source_doc_id # <<>> THEN <<note.source_doc_id>> ELSE <<>>

\* save_atomic_note(atomic_notes[k]) inside save_atomic_notes
SaveAtomicNote ==
    /\ pc = "save_atomic"
    /\ LET note == atomic_notes[k] IN
       /\ "atomic_notes" \notin tables => note.vec # "null"
       /\ Accepts(note.vec)
       /\ tables' = tables \cup {"atomic_notes"}
       /\ atomic' = Append(atomic, [id |-> Len(atomic) + 1,
                                    source_doc_ids |-> source_doc_ids(note)])
    /\ pc' = IF k = Len(atomic_notes) THEN "mark" ELSE "save_atomic"
    /\ k' = IF k = Len(atomic_notes) THEN 1 ELSE k + 1
    /\ saved' = (k = Len(atomic_notes))
    /\ UNCHANGED <<fn, dist, env, raw, new_documents, unprocessed_docs, ci, atomic_notes,
                   row, ret, runs, interrupted, extracted, again, notes_at_start,
                   pending, cycled>>

\* save_atomic_note raises, the exception is swallowed and the run goes on
SaveAtomicNoteSwallowed ==
    /\ pc = "save_atomic"
    /\ LET note == atomic_notes[k] IN
       \/ "atomic_notes" \notin tables /\ note.vec = "null"
       \/ "atomic_notes" \in tables /\ ~Accepts(note.vec)
    /\ pc' = "mark"
    /\ k' = 1
    /\ UNCHANGED <<fn, dist, env, store, new_documents, unprocessed_docs, ci, atomic_notes,
                   row, ret, hist>>

\* save_atomic_notes as one write: a note that raises takes the notes saved
\* before it in the same list out of the table again
SaveAtomicNoteRollsBack ==
    /\ pc = "save_atomic"
    /\ LET note == atomic_notes[k] IN
       \/ "atomic_notes" \notin tables /\ note.vec = "null"
       \/ "atomic_notes" \in tables /\ ~Accepts(note.vec)
    /\ atomic' = SubSeq(atomic, 1, Len(atomic) - (k - 1))
    /\ pc' = "failed"
    /\ interrupted' = TRUE
    /\ pending' = pending \cup SavedUnmarked
    /\ saved' = FALSE
    /\ Forget
    /\ UNCHANGED <<fn, dist, env, tables, raw, ret, runs, extracted, again,
                   notes_at_start, cycled>>

\* save_atomic_note raises, and with it save_atomic_notes and the run
SaveAtomicNoteRaises ==
    /\ pc = "save_atomic"
    /\ LET note == atomic_notes[k] IN
       \/ "atomic_notes" \notin tables /\ note.vec = "null"
       \/ "atomic_notes" \in tables /\ ~Accepts(note.vec)
    /\ Break("failed")

\* mark_raw_document_processed(Chunk[k].id), up to the delete
MarkDelete ==
    /\ pc = "mark"
    /\ LET doc_id == Chunk[k].id
           results == get_raw_document(doc_id)
       IN  IF "raw_documents" \notin tables \/ results = {}
           THEN /\ UNCHANGED <<raw, row>>
                /\ pc' = IF k = Len(Chunk) THEN "chunk_done" ELSE "mark"
                /\ k' = IF k = Len(Chunk) THEN 1 ELSE k + 1
           ELSE /\ row' = [raw[CHOOSE i \in results : \A j \in results : i <= j]
                              EXCEPT !.is_processed = TRUE]
                /\ raw' = DeleteById(raw, doc_id)
                /\ pc' = "mark_add"
                /\ k' = k
    /\ UNCHANGED <<fn, dist, env, tables, atomic, new_documents, unprocessed_docs, ci,
                   atomic_notes, ret, hist>>

\* mark_raw_document_processed: the row is added back as it was read
MarkAddUnchanged ==
    /\ pc = "mark_add"
    /\ raw' = Append(raw, [row EXCEPT !.is_processed = FALSE])
    /\ row' = NoRow
    /\ pc' = IF k = Len(Chunk) THEN "chunk_done" ELSE "mark"
    /\ k' = IF k = Len(Chunk) THEN 1 ELSE k + 1
    /\ UNCHANGED <<fn, dist, env, tables, atomic, new_documents, unprocessed_docs, ci,
                   atomic_notes, ret, hist>>

\* mark_raw_document_processed: table.add([row])
MarkAdd ==
    /\ pc = "mark_add"
    /\ raw' = Append(raw, row)
    /\ row' = NoRow
    /\ pc' = IF k = Len(Chunk) THEN "chunk_done" ELSE "mark"
    /\ k' = IF k = Len(Chunk) THEN 1 ELSE k + 1
    /\ UNCHANGED <<fn, dist, env, tables, atomic, new_documents, unprocessed_docs, ci,
                   atomic_notes, ret, hist>>

\* main.py 50: the next chunk, or the end of the loop
NextChunk ==
    /\ pc = "chunk_done"
    /\ cycled' = cycled \cup Ids(Chunk)
    /\ pending' = pending \ Ids(Chunk)
    /\ atomic_notes' = <<>>
    /\ saved' = FALSE
    /\ IF ChunkEnd < Len(unprocessed_docs)
       THEN /\ ci' = ci + ChunkSize
            /\ pc' = "extract"
       ELSE /\ ci' = ci
            /\ pc' = "cluster"
    /\ UNCHANGED <<fn, dist, env, store, new_documents, unprocessed_docs, k, row, ret, runs,
                   interrupted, extracted, again, notes_at_start>>

\* main.py 67-72 with no atomic note: nothing to cluster, the run completes
ClusterNothing ==
    /\ pc = "cluster"
    /\ get_all_atomic_notes = <<>>
    /\ pc' = "done"
    /\ Forget
    /\ UNCHANGED <<fn, dist, env, store, ret, hist>>

\* main.py 71 calls cluster_documents(atomic_notes, store=store), and
\* clusterer.py 95 takes no such argument: the call raises TypeError
ClusterRaises ==
    /\ pc = "cluster"
    /\ get_all_atomic_notes # <<>>
    /\ pc' = "failed"
    /\ Forget
    /\ UNCHANGED <<fn, dist, env, store, ret, hist>>

\* the process is killed between two store writes of the extraction stage
\* (once in a behaviour, in a run that follows no broken run)
Kill ==
    /\ ~interrupted
    /\ pc \in {"save_raw", "get_unprocessed", "extract", "embed", "save_atomic",
               "mark", "mark_add", "chunk_done"}
    /\ Break("killed")

\* no single operation is being called
NoCall ==
    /\ input = <<>>
    /\ output = <<>>

\* the distillation stage has not been entered
NoStage ==
    /\ clean = <<>>
    /\ method = "cluster"
    /\ geometry = NoGeometry
    /\ clusters = <<>>
    /\ candidates = <<>>
    /\ already_distilled_ids = {}
    /\ to_distill = <<>>
    /\ distilled_notes = <<>>
    /\ prev_complete = FALSE
    /\ grown = FALSE
    /\ same_notes = FALSE
    /\ saved_now = 0

Init ==
    /\ corpus \in {SubSeq(Vault, 1, n) : n \in 0..Len(Vault)}
    /\ null_ok \in BOOLEAN
    /\ tables = {}
    /\ raw = <<>>
    /\ atomic = <<>>
    /\ pc = "idle"
    /\ new_documents = <<>>
    /\ unprocessed_docs = <<>>
    /\ ci = 1
    /\ atomic_notes = <<>>
    /\ k = 1
    /\ row = NoRow
    /\ ret = <<>>
    /\ runs = 0
    /\ interrupted = FALSE
    /\ extracted = {}
    /\ again = {}
    /\ notes_at_start = 0
    /\ saved = FALSE
    /\ pending = {}
    /\ cycled = {}
    /\ NoStage
    /\ NoCall

Next ==
    \/ StartRun
    \/ SaveRawDocument
    \/ SaveRawDocumentRaises
    \/ GetUnprocessed
    \/ Extract
    \/ Embed
    \/ SaveAtomicNote
    \/ SaveAtomicNoteRaises
    \/ MarkDelete
    \/ MarkAdd
    \/ NextChunk
    \/ ClusterNothing
    \/ ClusterRaises
    \/ Kill

Spec == Init /\ [][Next]_vars

----------------------------------------------------------------------------
(* Properties of the extraction stage, checked under Spec *)

Flagged(id) == \E i \in get_raw_document(id) : raw[i].is_processed

\* C1: when the extract / embed / save / mark cycle of a chunk has completed,
\* has_processed_document is true of every document of the chunk and none of
\* them is returned by get_unprocessed_documents.
C1_CycleMarksChunk ==
    pc = "chunk_done" =>
        \A i \in 1..Len(Chunk) :
            /\ has_processed_document(Chunk[i].id)
            /\ Chunk[i].id \notin Ids(get_unprocessed_documents)

\* a chunk of two documents with stored notes has completed its cycle
C1_Witness ==
    /\ pc = "chunk_done"
    /\ Len(Chunk) = ChunkSize
    /\ \A i \in 1..Len(Chunk) : get_atomic_notes_for_raw_document(Chunk[i].id) # <<>>

\* C2: save_raw_document returns the id of the document and leaves exactly
\* one row with that id in the raw tier; when a row with the id is already
\* stored the tier is left as it was.
C2_SaveRawIdempotent ==
    [][(pc = "save_raw" /\ pc' \in {"save_raw", "get_unprocessed"}) =>
          LET document == new_documents[k] IN
            /\ ret' = document.id
            /\ Count(raw', document.id) = 1
            /\ (Count(raw, document.id) >= 1 => raw' = raw)]_vars

\* two documents with the same path and text have both been saved
C2_Witness ==
    /\ Len(new_documents) >= 2
    /\ new_documents[1].id = new_documents[2].id
    /\ pc = "get_unprocessed" \/ (pc = "save_raw" /\ k > 2)
    /\ ret = new_documents[2].id
    /\ Count(raw, new_documents[1].id) = 1

\* C3: as long as every run went through its extraction loop, no document is
\* extracted twice, and a run that follows on an unchanged corpus finds no
\* new document, no unprocessed document, and adds no atomic note.
C3_ExtractedOnce ==
    ~interrupted =>
        /\ again = {}
        /\ runs >= 2 =>
              /\ pc \notin {"save_raw", "extract", "embed", "save_atomic",
                            "mark", "mark_add", "chunk_done"}
              /\ pc # "idle" => new_documents = <<>> /\ unprocessed_docs = <<>>
              /\ Len(atomic) = notes_at_start

\* a second run has gone through on a store that holds notes of the first
C3_Witness ==
    /\ ~interrupted
    /\ runs = 2
    /\ pc \in {"done", "failed"}
    /\ Len(atomic) >= 2
    /\ Len(raw) >= 3

\* C4 as stated: at the end of every chunk cycle and of every extraction
\* loop, a stored document has the flag set exactly when an atomic note
\* names it as its source.
C4_FlagIffProvenance ==
    pc \in {"chunk_done", "cluster"} =>
        \A i \in 1..Len(raw) :
            raw[i].is_processed <=>
                get_atomic_notes_for_raw_document(raw[i].id) # <<>>

\* C5 as stated: has_processed_document is the provenance query.
C5_HasProcessedIsProvenance ==
    \A id \in AllIds :
        has_processed_document(id) <=>
            get_atomic_notes_for_raw_document(id) # <<>>

\* C5: has_processed_document(d) is true exactly when d is stored in the raw
\* tier with the processed flag set, that is when d is stored and
\* get_unprocessed_documents does not return it; the atomic tier is not
\* consulted.
C5_HasProcessedIsFlag ==
    \A id \in AllIds :
        has_processed_document(id) <=>
            /\ get_raw_document(id) # {}
            /\ id \notin Ids(get_unprocessed_documents)

\* the two readings differ both ways: a flagged document without a note, and
\* an unflagged one with notes
C5_Witness ==
    /\ \E id \in AllIds : /\ has_processed_document(id)
                          /\ get_atomic_notes_for_raw_document(id) = <<>>
    /\ \E id \in AllIds : /\ ~has_processed_document(id)
                          /\ get_raw_document(id) # {}
                          /\ get_atomic_notes_for_raw_document(id) # <<>>

\* C6: the flag of a document is set only by the marking step of its chunk,
\* and only after save_atomic_notes has returned for that chunk; every note
\* extracted for the chunk is then in the atomic tier.
C6_SaveBeforeFlag ==
    [][\A id \in AllIds :
          (~Flagged(id) /\ Flagged(id)') =>
              /\ pc = "mark_add"
              /\ id = Chunk[k].id
              /\ saved
              /\ \A n \in Range(atomic_notes) :
                    get_atomic_notes_for_raw_document(n.source_doc_id) # <<>>]_vars

\* a document with stored notes has been flagged
C6_Witness ==
    \E id \in AllIds : /\ Flagged(id)
                       /\ get_atomic_notes_for_raw_document(id) # <<>>
                       /\ pc = "mark"

\* C7: a document whose notes were saved by a run that broke before marking
\* it is in the work queue of the following run and is extracted again; a
\* document of a chunk whose cycle completed is not in the queue.
C7_Requeued ==
    /\ pc = "extract" =>
          pending \subseteq Ids(SubSeq(unprocessed_docs, ci, Len(unprocessed_docs)))
    /\ (pc = "extract" /\ ci = 1) => cycled \cap Ids(unprocessed_docs) = {}
    /\ pc = "chunk_done" => (pending \cap Ids(Chunk)) \subseteq again
    /\ pc = "cluster" => pending = {}

\* after a run that completed one chunk and broke in the next with notes
\* saved, the following run has extracted the unmarked document again
C7_Witness ==
    /\ pc = "chunk_done"
    /\ pending \cap Ids(Chunk) # {}
    /\ cycled # {}
    /\ cycled \cap Ids(unprocessed_docs) = {}

\* C10 as stated: extract_atomic_ideas hands back at least one note for
\* every document it was given.
C10_AtLeastOneIdea ==
    pc = "embed" =>
        \A i \in 1..Len(Chunk) :
            \E n \in Range(atomic_notes) : n.source_doc_id = Chunk[i].id

----------------------------------------------------------------------------
(* main.py 65-149 with clusterer.py, selector.py, distiller.py: the
   distillation stage, on the clusters the clusterer hands back *)

\* number of notes in the atomic tier
MaxNotes == 3

\* IntraClusterSimilarityFilter(min_group_size=2)
min_group_size == 2

\* ConceptDistiller(min_cluster_size=2)
min_cluster_size == 2

RECURSIVE SortedSeq(_)
SortedSeq(S) ==
    IF S = {} THEN <<>>
    ELSE LET m == CHOOSE x \in S : \A y \in S : x <= y
         IN  <<m>> \o SortedSeq(S \ {m})

\* cluster_documents 160-167: the notes grouped by label, the groups in the
\* order of the labels
GroupByLabel(f) ==
    LET labels == SortedSeq({f[i] : i \in DOMAIN f})
        Members(l) == LET Test(i) == f[i] = l
                      IN  SelectSeq([i \in DOMAIN f |-> i], Test)
    IN  [j \in 1..Len(labels) |->
            [m \in 1..Len(Members(labels[j])) |-> atomic[Members(labels[j])[m]].id]]

\* cluster_documents(get_all_atomic_notes): the labels are what the
\* clustering library makes of the vectors
cluster_documents == {GroupByLabel(f) : f \in [1..Len(atomic) -> 1..Len(atomic)]}

\* pairs of notes of one cluster that _compute_similarity_matrix can put at
\* or above the threshold
PairsWithin(cls) ==
    UNION {{{a, b} : a, b \in Range(cls[i])} : i \in 1..Len(cls)}
        \ {{a} : a \in 1..Len(atomic)}

Geometries ==
    UNION {{[n |-> Len(atomic), clusters |-> c, similar |-> sim] :
               sim \in IF method = "similarity" THEN SUBSET PairsWithin(c) ELSE {{}}} :
           c \in cluster_documents}

RECURSIVE FindGroups(_, _, _, _)
FindGroups(cluster, similar, i, processed) ==
    IF i > Len(cluster) THEN <<>>
    ELSE IF cluster[i] \in processed
    THEN FindGroups(cluster, similar, i + 1, processed)
    ELSE LET Test(d) == /\ d = cluster[i] \/ {cluster[i], d} \in similar
                        /\ d \notin processed
             group == SelectSeq(cluster, Test)
         IN  IF Len(group) >= min_group_size
             THEN <<group>> \o FindGroups(cluster, similar, i + 1,
                                          processed \cup Range(group))
             ELSE FindGroups(cluster, similar, i + 1, processed)

\* selector.py 43-78
find_similarity_groups(cluster, similar) ==
    IF Len(cluster) < min_group_size THEN <<>>
    ELSE FindGroups(cluster, similar, 1, {})

\* selector.py 80-98
filter_clusters(cls, similar) ==
    Flatten([i \in 1..Len(cls) |-> find_similarity_groups(cls[i], similar)])

\* storage.py 745: table.search().limit(10000)
QueryLimit == 10000

\* the rows a query with limit(n) returns: the first n rows of the table
Limit(rows, n) == SubSeq(rows, 1, IF Len(rows) < n THEN Len(rows) ELSE n)

\* storage.py 734-759
get_already_distilled_note_ids ==
    IF "clean_notes" \notin tables THEN {}
    ELSE LET results == Limit(clean, QueryLimit)
         IN  UNION {Range(results[i].atomic_note_ids) : i \in 1..Len(results)}

\* the filter of main.py 99-107 and 117-126 keeping what has a new note
clusters_with_new_note(groups, already) ==
    LET Keep(group) == Cardinality(Range(group) \ already) >= 1
    IN  SelectSeq(groups, Keep)

\* main.py 99-107 and 117-126: the groups with at least 2 new notes
clusters_to_distill(groups, already) ==
    LET Keep(group) == Cardinality(Range(group) \ already) >= 2
    IN  SelectSeq(groups, Keep)

\* what identify_cluster_concepts can return: concepts, no concept, or the
\* "Analysis failed" record of its except branch
Analyses == {"concepts", "empty", "failed"}

\* the synthesis without the ids of the cluster it was made from
synthesis_without_sources(cluster, analysis) ==
    IF analysis # "concepts" THEN <<>>
    ELSE <<[source_ids |-> <<>>, text |-> "synthesis", title |-> "cluster_theme",
            is_user_edited |-> FALSE, vec |-> "none"]>>

\* distiller.py 111-181: no note for an analysis without concepts
create_concept_synthesis(cluster, analysis) ==
    IF analysis # "concepts" THEN <<>>
    ELSE <<[source_ids |-> cluster, text |-> "synthesis", title |-> "cluster_theme",
            is_user_edited |-> FALSE, vec |-> "none"]>>

\* distiller.py 183-201: zero or one note
distill_single_cluster(cluster, analysis) ==
    IF Len(cluster) < min_cluster_size THEN <<>>
    ELSE create_concept_synthesis(cluster, analysis)

StageStopped == {"stage_idle", "stage_done", "stage_failed"}

pipe == <<corpus, raw, new_documents, unprocessed_docs, ci, atomic_notes, row, ret,
          interrupted, extracted, again, notes_at_start, saved, pending, cycled, fn>>

\* main.py 67-72: the atomic notes and their clusters; the same vectors
\* give the same clusters
StartStage ==
    /\ pc \in StageStopped
    /\ runs < MaxRuns
    /\ runs' = runs + 1
    /\ prev_complete' = (pc = "stage_done")
    /\ same_notes' = ~grown
    /\ grown' = FALSE
    /\ saved_now' = 0
    /\ candidates' = <<>>
    /\ already_distilled_ids' = {}
    /\ to_distill' = <<>>
    /\ distilled_notes' = <<>>
    /\ k' = 1
    /\ IF get_all_atomic_notes = <<>>
       THEN /\ pc' = "stage_done"
            /\ clusters' = <<>>
            /\ UNCHANGED geometry
       ELSE /\ \E g \in Geometries :
                  /\ geometry.n = Len(atomic) => g = geometry
                  /\ geometry' = g
                  /\ clusters' = g.clusters
            /\ pc' = "filter"
    /\ UNCHANGED <<pipe, null_ok, tables, atomic, clean, method>>

\* main.py 84-126: the already distilled ids and the filter
FilterClusters ==
    /\ pc = "filter"
    /\ already_distilled_ids' = get_already_distilled_note_ids
    /\ candidates' = IF method = "similarity"
                     THEN filter_clusters(clusters, geometry.similar)
                     ELSE clusters
    /\ to_distill' = clusters_to_distill(candidates', already_distilled_ids')
    /\ pc' = IF to_distill' = <<>> THEN "visualize" ELSE "distill"
    /\ k' = 1
    /\ UNCHANGED <<pipe, null_ok, tables, atomic, runs, clean, method, geometry,
                   clusters, distilled_notes, prev_complete, grown, same_notes,
                   saved_now>>

\* distill_knowledge 215-220: one cluster
DistillCluster ==
    /\ pc = "distill"
    /\ \E analysis \in Analyses :
          distilled_notes' =
              distilled_notes \o distill_single_cluster(to_distill[k], analysis)
    /\ IF k = Len(to_distill)
       THEN /\ pc' = IF distilled_notes' = <<>> THEN "visualize" ELSE "embed_distilled"
            /\ k' = 1
       ELSE /\ pc' = "distill"
            /\ k' = k + 1
    /\ UNCHANGED <<pipe, null_ok, tables, atomic, runs, clean, method, geometry,
                   clusters, candidates, already_distilled_ids, to_distill,
                   prev_complete, grown, same_notes, saved_now>>

StageBreak ==
    /\ pc' = "stage_failed"
    /\ k' = 1
    /\ UNCHANGED <<pipe, null_ok, tables, atomic, runs, clean, method, geometry,
                   clusters, candidates, already_distilled_ids, to_distill,
                   distilled_notes, prev_complete, grown, same_notes, saved_now>>

\* distiller.py 100: llm.complete is outside the try, what it raises leaves
\* distill_knowledge and main
DistillRaises ==
    /\ pc = "distill"
    /\ StageBreak

\* main.py 133-138: embedder.embed_documents(distilled_docs)
EmbedDistilled ==
    /\ pc = "embed_distilled"
    /\ \E e \in embed_documents(Len(distilled_notes), {}) :
          distilled_notes' = [i \in 1..Len(distilled_notes) |->
                                  [distilled_notes[i] EXCEPT !.vec = e[i]]]
    /\ pc' = "save_clean"
    /\ k' = 1
    /\ UNCHANGED <<pipe, null_ok, tables, atomic, runs, clean, method, geometry,
                   clusters, candidates, already_distilled_ids, to_distill,
                   prev_complete, grown, same_notes, saved_now>>

\* last second the clock is followed to
MaxClock == 2

Max(S) == CHOOSE x \in S : \A y \in S : y <= x

\* the latest timestamp of the clean notes table
Latest == Max({0} \cup {clean[i].last_modified_time : i \in 1..Len(clean)})

\* datetime.now().replace(microsecond=0): the second of the latest
\* timestamp, or a later one
Now == {t \in {Latest, Latest + 1} : t <= MaxClock}

\* str(uuid.uuid4()), the doc_id of a new distilled note: an id that no
\* clean note has
uuid4 == Max({0} \cup {clean[i].id : i \in 1..Len(clean)}) + 1

\* storage.py 312-323: the row of a clean note
CleanItem(note_id, note, atomic_note_ids, created_time, now, is_user_edited) ==
    [id |-> note_id, text |-> note.text, title |-> note.title,
     atomic_note_ids |-> atomic_note_ids, created_time |-> created_time,
     last_modified_time |-> now, is_user_edited |-> is_user_edited,
     vec |-> note.vec]

\* save_clean_note(distilled_notes[k].doc, source ids) inside save_clean_notes
SaveCleanNote ==
    /\ pc = "save_clean"
    /\ LET note == distilled_notes[k] IN
       /\ "clean_notes" \notin tables => note.vec # "null"
       /\ Accepts(note.vec)
       /\ tables' = tables \cup {"clean_notes"}
       /\ \E now \in Now :
             clean' = Append(clean, CleanItem(uuid4, note, note.source_ids, now, now,
                                              note.is_user_edited))
    /\ saved_now' = saved_now + 1
    /\ pc' = IF k = Len(distilled_notes) THEN "visualize" ELSE "save_clean"
    /\ k' = IF k = Len(distilled_notes) THEN 1 ELSE k + 1
    /\ UNCHANGED <<pipe, null_ok, atomic, runs, method, geometry, clusters,
                   candidates, already_distilled_ids, to_distill, distilled_notes,
                   prev_complete, grown, same_notes>>

\* save_clean_note raises, and with it save_clean_notes and main
SaveCleanNoteRaises ==
    /\ pc = "save_clean"
    /\ LET note == distilled_notes[k] IN
       \/ "clean_notes" \notin tables /\ note.vec = "null"
       \/ "clean_notes" \in tables /\ ~Accepts(note.vec)
    /\ StageBreak

\* main.py 142-146: the knowledge map, and the stage is through
Visualize ==
    /\ pc = "visualize"
    /\ pc' = "stage_done"
    /\ UNCHANGED <<pipe, null_ok, tables, atomic, k, runs, dist>>

\* between two runs of the stage an extraction cycle saves one more note
AddAtomicNote ==
    /\ pc \in StageStopped
    /\ Len(atomic) < MaxNotes
    /\ tables' = tables \cup {"atomic_notes"}
    /\ atomic' = Append(atomic, [id |-> Len(atomic) + 1,
                                 source_doc_ids |-> <<raw[1].id>>])
    /\ grown' = TRUE
    /\ UNCHANGED <<pipe, null_ok, pc, k, runs, clean, method, geometry, clusters,
                   candidates, already_distilled_ids, to_distill, distilled_notes,
                   prev_complete, same_notes, saved_now>>

\* a store after an extraction run: one processed document and its notes
InitDistill ==
    /\ corpus = SubSeq(Vault, 1, 1)
    /\ null_ok \in BOOLEAN
    /\ raw = <<[id |-> generate_unique_doc_id(Vault[1]), text |-> Vault[1].text,
                is_processed |-> TRUE, vec |-> "vec"]>>
    /\ \E n \in 0..MaxNotes :
          /\ atomic = [i \in 1..n |->
                          [id |-> i,
                           source_doc_ids |-> <<generate_unique_doc_id(Vault[1])>>]]
          /\ tables = IF n = 0 THEN {"raw_documents"}
                      ELSE {"raw_documents", "atomic_notes"}
    /\ pc = "stage_idle"
    /\ new_documents = <<>>
    /\ unprocessed_docs = <<>>
    /\ ci = 1
    /\ atomic_notes = <<>>
    /\ k = 1
    /\ row = NoRow
    /\ ret = <<>>
    /\ runs = 0
    /\ interrupted = FALSE
    /\ extracted = {generate_unique_doc_id(Vault[1])}
    /\ again = {}
    /\ notes_at_start = 0
    /\ saved = FALSE
    /\ pending = {}
    /\ cycled = {generate_unique_doc_id(Vault[1])}
    /\ clean = <<>>
    /\ method \in {"similarity", "cluster"}
    /\ geometry = NoGeometry
    /\ clusters = <<>>
    /\ candidates = <<>>
    /\ already_distilled_ids = {}
    /\ to_distill = <<>>
    /\ distilled_notes = <<>>
    /\ prev_complete = FALSE
    /\ grown = FALSE
    /\ same_notes = FALSE
    /\ saved_now = 0
    /\ NoCall

NextDistill ==
    \/ StartStage
    \/ FilterClusters
    \/ DistillCluster
    \/ DistillRaises
    \/ EmbedDistilled
    \/ SaveCleanNote
    \/ SaveCleanNoteRaises
    \/ Visualize
    \/ AddAtomicNote

SpecDistill == InitDistill /\ [][NextDistill]_vars

----------------------------------------------------------------------------
(* Properties of the distillation stage, checked under SpecDistill *)

InSeq(x, seq) == \E j \in 1..Len(seq) : seq[j] = x

----------------------------------------------------------------------------
(* extract_section_ideas of atomic_extractor.py and of
   voice_note_extractor.py, called on its own *)

\* everything but pc and the call
rest == <<env, store, local, ret, hist, dist>>

\* the store and both stages at rest while a single operation is called
Parked ==
    /\ corpus = <<>>
    /\ null_ok = FALSE
    /\ tables = {}
    /\ raw = <<>>
    /\ atomic = <<>>
    /\ new_documents = <<>>
    /\ unprocessed_docs = <<>>
    /\ ci = 1
    /\ atomic_notes = <<>>
    /\ k = 1
    /\ row = NoRow
    /\ ret = <<>>
    /\ runs = 0
    /\ interrupted = FALSE
    /\ extracted = {}
    /\ again = {}
    /\ notes_at_start = 0
    /\ saved = FALSE
    /\ pending = {}
    /\ cycled = {}
    /\ NoStage

\* section[:100]
TruncateAt == 100

Dots == <<".", ".", ".">>

\* a section of n characters
Text(n) == [i \in 1..n |-> "x"]

SectionLens == {0, 1, TruncateAt, TruncateAt + 1}

\* what a completion holds once the fence, if any, is taken off: a list of
\* ideas, [], a non-empty object, a number other than 0, null (or 0 or
\* false), or text that is no JSON
Bodies == {"ideas", "empty_list", "object", "number", "null", "garbage"}

\* llm.complete raises
LLMRaises == [fenced |-> FALSE, body |-> "raise"]

NoCompletion == [fenced |-> FALSE, body |-> "unused"]

Completions == [fenced : BOOLEAN, body : Bodies] \cup {LLMRaises}

\* json.loads
json_loads(body) == IF body = "garbage" THEN "JSONDecodeError" ELSE body

\* bool(value)
Truthy(value) == value \in {"ideas", "object", "number"}

\* len(value) is defined
HasLen(value) == value \in {"ideas", "empty_list", "object"}

Returned(src, json, calls) ==
    [raised |-> FALSE, src |-> src, json |-> json, calls |-> calls,
     title |-> "", description |-> <<>>]

FellBack(description, calls) ==
    [raised |-> FALSE, src |-> "fallback", json |-> "ideas", calls |-> calls,
     title |-> "Section content", description |-> description]

Raised(calls) ==
    [raised |-> TRUE, src |-> "none", json |-> "", calls |-> calls,
     title |-> "", description |-> <<>>]

\* text[:n]
Prefix(text, n) == SubSeq(text, 1, IF n < Len(text) THEN n ELSE Len(text))

\* atomic_extractor.py 208-224
section_content_idea(section) ==
    IF Len(section) > TruncateAt
    THEN Prefix(section, TruncateAt) \o Dots
    ELSE section

\* atomic_extractor.py 62-90: None when json.loads raises JSONDecodeError
clean_llm_json_response(completion) ==
    IF json_loads(completion.body) = "JSONDecodeError" THEN "None"
    ELSE json_loads(completion.body)

\* atomic_extractor.py 147-206: one completion, then the fallback idea
backend_extract_section_ideas(section, first) ==
    IF first = LLMRaises THEN FellBack(section_content_idea(section), 1)
    ELSE LET ideas == clean_llm_json_response(first) IN
         IF Truthy(ideas) /\ HasLen(ideas) THEN Returned("first", ideas, 1)
         ELSE FellBack(section_content_idea(section), 1)

\* voice_note_extractor.py 151-258: json.loads of the whole first
\* completion; a value that is falsy leaves the try block without a return
\* and without an exception, and the function ends returning None
voice_extract_section_ideas(section, first, second) ==
    IF first = LLMRaises THEN Raised(1)
    ELSE LET ideas == IF first.fenced THEN "JSONDecodeError"
                      ELSE json_loads(first.body)
         IN  IF ideas # "JSONDecodeError" /\ Truthy(ideas) /\ HasLen(ideas)
             THEN Returned("first", ideas, 1)
             ELSE IF ideas # "JSONDecodeError" /\ ~Truthy(ideas)
             THEN Returned("none", "None", 1)
             ELSE IF second = LLMRaises THEN Raised(2)
             ELSE IF json_loads(second.body) = "JSONDecodeError"
             THEN FellBack(Prefix(section, TruncateAt) \o Dots, 2)
             ELSE Returned("second", json_loads(second.body), 2)

CallBackendExtractSectionIdeas ==
    /\ pc = "call"
    /\ input.op = "backend"
    /\ output' = backend_extract_section_ideas(input.section, input.first)
    /\ pc' = "returned"
    /\ UNCHANGED <<rest, input>>

CallVoiceExtractSectionIdeas ==
    /\ pc = "call"
    /\ input.op = "voice"
    /\ output' = voice_extract_section_ideas(input.section, input.first, input.second)
    /\ pc' = "returned"
    /\ UNCHANGED <<rest, input>>

InitSection ==
    /\ Parked
    /\ pc = "call"
    /\ input \in [op : {"backend"}, section : {Text(n) : n \in SectionLens},
                  first : Completions, second : {NoCompletion}]
             \cup [op : {"voice"}, section : {Text(n) : n \in SectionLens},
                   first : Completions, second : Completions]
    /\ output = <<>>

NextSection ==
    \/ CallBackendExtractSectionIdeas
    \/ CallVoiceExtractSectionIdeas

SpecSection == InitSection /\ [][NextSection]_vars

\* C11 as stated: when no llm.complete call raises, extract_section_ideas
\* does not raise and returns a non-empty list of ideas; the ideas of the
\* first completion come back after one call, anything else only after a
\* second, stricter prompt, and the placeholder idea (title "Section
\* content", description a prefix of the section) only when the second
\* completion did not parse either.
C11_ThreeTierFallback ==
    (pc = "returned" /\ input.first # LLMRaises /\ input.second # LLMRaises) =>
        /\ ~output.raised
        /\ output.src \in {"first", "second", "fallback"}
        /\ output.json = "ideas"
        /\ output.src = "first" <=> output.calls = 1
        /\ output.src = "fallback" =>
              /\ input.second.body \notin {"ideas"}
              /\ output.title = "Section content"
              /\ output.description \in
                    {Prefix(input.section, n) \o d :
                        n \in 0..Len(input.section), d \in {<<>>, Dots}}

----------------------------------------------------------------------------
(* Properties of the distiller, checked under SpecDistill *)

\* C12 as stated: when the model answers, distilling a cluster of at least
\* min_cluster_size notes adds exactly one distilled note to the result, and
\* the provenance of that note is made of ids of the cluster; this also when
\* the analysis is unparseable or has no concept.
C12_OneNotePerCluster ==
    [][(pc = "distill" /\ pc' # "stage_failed"
            /\ Len(to_distill[k]) >= min_cluster_size) =>
          /\ Len(distilled_notes') = Len(distilled_notes) + 1
          /\ Range(distilled_notes'[Len(distilled_notes')].source_ids)
                \subseteq Range(to_distill[k])]_vars

----------------------------------------------------------------------------
(* distiller.py 183-223: distill_knowledge called with clusters of any
   size, followed by main.py 131-149 *)

\* the clusters distill_knowledge is given: one or two of these
GivenClusters == {<<>>, <<1>>, <<2>>, <<1, 2>>, <<2, 3>>, <<1, 2, 3>>}

DistillerLoopEnd ==
    IF k = Len(to_distill)
    THEN /\ pc' = IF distilled_notes' = <<>> THEN "visualize" ELSE "embed_distilled"
         /\ k' = 1
    ELSE /\ pc' = "distill_knowledge"
         /\ k' = k + 1

\* distill_single_cluster without the test on the size of the cluster
AnalyseAnyCluster ==
    /\ pc = "distill_knowledge"
    /\ Len(to_distill[k]) < min_cluster_size
    /\ output' = [calls |-> output.calls + 1]
    /\ \E analysis \in Analyses :
          distilled_notes' =
              distilled_notes \o create_concept_synthesis(to_distill[k], analysis)
    /\ DistillerLoopEnd
    /\ UNCHANGED <<env, store, new_documents, unprocessed_docs, ci, atomic_notes,
                   row, ret, hist, input, clean, method, geometry, clusters,
                   candidates, already_distilled_ids, to_distill, prev_complete,
                   grown, same_notes, saved_now>>

\* distiller.py 193-195: a cluster below min_cluster_size is skipped
SkipSmallCluster ==
    /\ pc = "distill_knowledge"
    /\ Len(to_distill[k]) < min_cluster_size
    /\ distilled_notes' = distilled_notes \o distill_single_cluster(to_distill[k], "none")
    /\ DistillerLoopEnd
    /\ UNCHANGED <<env, store, new_documents, unprocessed_docs, ci, atomic_notes,
                   row, ret, hist, fn, clean, method, geometry, clusters,
                   candidates, already_distilled_ids, to_distill, prev_complete,
                   grown, same_notes, saved_now>>

\* distiller.py 197-201: one completion, then the synthesis
AnalyseCluster ==
    /\ pc = "distill_knowledge"
    /\ Len(to_distill[k]) >= min_cluster_size
    /\ output' = [calls |-> output.calls + 1]
    /\ \E analysis \in Analyses :
          distilled_notes' =
              distilled_notes \o distill_single_cluster(to_distill[k], analysis)
    /\ DistillerLoopEnd
    /\ UNCHANGED <<env, store, new_documents, unprocessed_docs, ci, atomic_notes,
                   row, ret, hist, input, clean, method, geometry, clusters,
                   candidates, already_distilled_ids, to_distill, prev_complete,
                   grown, same_notes, saved_now>>

\* distiller.py 100: llm.complete raises
AnalyseClusterRaises ==
    /\ pc = "distill_knowledge"
    /\ Len(to_distill[k]) >= min_cluster_size
    /\ output' = [calls |-> output.calls + 1]
    /\ pc' = "stage_failed"
    /\ k' = 1
    /\ UNCHANGED <<env, store, new_documents, unprocessed_docs, ci, atomic_notes,
                   row, ret, hist, input, dist>>

InitDistiller ==
    /\ corpus = SubSeq(Vault, 1, 1)
    /\ null_ok \in BOOLEAN
    /\ tables = {"raw_documents", "atomic_notes"}
    /\ raw = <<[id |-> generate_unique_doc_id(Vault[1]), text |-> Vault[1].text,
                is_processed |-> TRUE, vec |-> "vec"]>>
    /\ atomic = [i \in 1..3 |->
                    [id |-> i, source_doc_ids |-> <<generate_unique_doc_id(Vault[1])>>]]
    /\ pc = "distill_knowledge"
    /\ new_documents = <<>>
    /\ unprocessed_docs = <<>>
    /\ ci = 1
    /\ atomic_notes = <<>>
    /\ k = 1
    /\ row = NoRow
    /\ ret = <<>>
    /\ runs = 1
    /\ interrupted = FALSE
    /\ extracted = {generate_unique_doc_id(Vault[1])}
    /\ again = {}
    /\ notes_at_start = 0
    /\ saved = FALSE
    /\ pending = {}
    /\ cycled = {generate_unique_doc_id(Vault[1])}
    /\ clean = <<>>
    /\ method = "cluster"
    /\ geometry = NoGeometry
    /\ clusters = <<>>
    /\ candidates = <<>>
    /\ already_distilled_ids = {}
    /\ to_distill \in {<<c>> : c \in GivenClusters}
                      \cup {<<c, d>> : c, d \in GivenClusters}
    /\ distilled_notes = <<>>
    /\ prev_complete = FALSE
    /\ grown = FALSE
    /\ same_notes = FALSE
    /\ saved_now = 0
    /\ input = <<>>
    /\ output = [calls |-> 0]

NextDistiller ==
    \/ SkipSmallCluster
    \/ AnalyseCluster
    \/ AnalyseClusterRaises
    \/ EmbedDistilled
    \/ SaveCleanNote
    \/ SaveCleanNoteRaises
    \/ Visualize

SpecDistiller == InitDistiller /\ [][NextDistiller]_vars

\* C13: for a cluster with fewer than min_cluster_size notes the distiller
\* makes no model call and adds no note to its result, and no clean note
\* whose provenance is such a cluster is ever in the store.
C13_SmallClusterSkipped ==
    [][/\ (pc = "distill_knowledge" /\ Len(to_distill[k]) < min_cluster_size) =>
             /\ output' = output
             /\ distilled_notes' = distilled_notes
       /\ \A i \in 1..Len(clean') :
             Len(clean'[i].atomic_note_ids) >= min_cluster_size]_vars

\* one of two clusters was skipped, the other analysed and saved
C13_Witness ==
    /\ pc = "stage_done"
    /\ to_distill = <<<<1>>, <<2, 3>>>>
    /\ output.calls = 1
    /\ Len(clean) = 1
    /\ clean[1].atomic_note_ids = <<2, 3>>

\* C14 as stated: no failure of a text-generation or embedding call leaves
\* the distiller or aborts the run: a stage run never ends in an exception
\* (under SpecDistill an exception has no other origin than such a failure).
C14_NoFailureAborts ==
    pc # "stage_failed"

----------------------------------------------------------------------------
(* embedder.py 20-72: embed_documents called on a batch *)

\* number of documents in a batch
MaxBatch == 3

\* a document of the batch: its text (is_str is false for a text that is no
\* string), whether the text is longer than MAX_CHARS, and what the
\* embedding call does when it is made for this document
BatchItems ==
    {[is_str |-> FALSE, text |-> <<>>, large |-> FALSE, call |-> "unused"],
     [is_str |-> TRUE, text |-> <<>>, large |-> FALSE, call |-> "unused"],
     [is_str |-> TRUE, text |-> <<" ", NL>>, large |-> FALSE, call |-> "unused"]}
    \cup [is_str : {TRUE}, text : {<<"x">>}, large : BOOLEAN,
          call : {"returns", "raises"}]

\* embedder.py 41: not isinstance(doc.text, str) or not doc.text.strip()
InvalidText(doc) == ~doc.is_str \/ strip(doc.text) = <<>>

\* the document with metadata["embedding"] and metadata["embedding_error"]
WithEmbedding(doc, embedding, error) ==
    [text |-> doc.text, is_str |-> doc.is_str, embedding |-> embedding,
     embedding_error |-> error]

\* embedder.py 32-33, and entering the loop
EmbedStart ==
    /\ pc = "call"
    /\ output' = [i \in 1..Len(input) |-> WithEmbedding(input[i], "absent", "")]
    /\ k' = 1
    /\ pc' = IF input = <<>> THEN "returned" ELSE "embed_loop"
    /\ UNCHANGED <<env, store, new_documents, unprocessed_docs, ci, atomic_notes,
                   row, ret, hist, dist, input>>

EmbedLoopEnd ==
    /\ pc' = IF k = Len(input) THEN "returned" ELSE "embed_loop"
    /\ k' = k + 1
    /\ UNCHANGED <<env, store, new_documents, unprocessed_docs, ci, atomic_notes,
                   row, ret, hist, dist, input>>

\* embedder.py 41-47
EmbedInvalid ==
    /\ pc = "embed_loop"
    /\ InvalidText(input[k])
    /\ output' = [output EXCEPT ![k] =
                     WithEmbedding(input[k], "null", "Invalid or empty text")]
    /\ EmbedLoopEnd

\* embedder.py 49-59: the vector of the text, or of its chunks
EmbedItem ==
    /\ pc = "embed_loop"
    /\ ~InvalidText(input[k])
    /\ input[k].call = "returns"
    /\ output' = [output EXCEPT ![k] = WithEmbedding(input[k], "vec", "")]
    /\ EmbedLoopEnd

\* the exception of the embedding call leaving embed_documents
EmbedItemPropagates ==
    /\ pc = "embed_loop"
    /\ ~InvalidText(input[k])
    /\ input[k].call = "raises"
    /\ pc' = "returned"
    /\ UNCHANGED <<env, store, local, ret, hist, dist, fn>>

\* embedder.py 60-69: the call raised
EmbedItemFails ==
    /\ pc = "embed_loop"
    /\ ~InvalidText(input[k])
    /\ input[k].call = "raises"
    /\ output' = [output EXCEPT ![k] = WithEmbedding(input[k], "null", "str(e)")]
    /\ EmbedLoopEnd

InitEmbed ==
    /\ Parked
    /\ pc = "call"
    /\ input \in UNION {[1..n -> BatchItems] : n \in 0..MaxBatch}
    /\ output = <<>>

NextEmbed ==
    \/ EmbedStart
    \/ EmbedInvalid
    \/ EmbedItem
    \/ EmbedItemFails

SpecEmbed == InitEmbed /\ [][NextEmbed]_vars

\* C15: embed_documents returns as many documents as it was given, in the
\* same order; a document whose text is empty, blank or no string, or whose
\* embedding call raises, has a null embedding and an error description, and
\* every other document has a vector, whatever happened to the others.
C15_BatchKeepsEveryItem ==
    pc = "returned" =>
        /\ Len(output) = Len(input)
        /\ \A i \in 1..Len(input) :
              /\ output[i].text = input[i].text
              /\ output[i].is_str = input[i].is_str
              /\ IF InvalidText(input[i]) \/ input[i].call = "raises"
                 THEN output[i].embedding = "null" /\ output[i].embedding_error # ""
                 ELSE output[i].embedding = "vec"

\* a batch whose first call raised and whose second text is blank came back
\* with a vector for the third document
C15_Witness ==
    /\ pc = "returned"
    /\ Len(input) = 3
    /\ input[1].call = "raises"
    /\ InvalidText(input[2])
    /\ output[1].embedding = "null"
    /\ output[2].embedding = "null"
    /\ output[3].embedding = "vec"

----------------------------------------------------------------------------
(* Properties of the saves, checked under Spec *)

\* the record the save at hand is given has None for its embedding
SavingNullEmbedding ==
    \/ pc = "save_raw" /\ new_documents[k].vec = "null"
    \/ pc = "save_atomic" /\ atomic_notes[k].vec = "null"

\* C16: a save of a record whose embedding is missing fails and leaves the
\* store unchanged, so that no record without a vector is persisted.
C16_MissingEmbeddingRefused ==
    [][SavingNullEmbedding =>
          /\ pc' \in {"failed", "killed"}
          /\ UNCHANGED store]_vars

----------------------------------------------------------------------------
(* storage.py 211-215: save_atomic_notes called on a list of notes *)

\* an atomic note handed to save_atomic_notes: metadata["source_doc_id"] is
\* the id of a raw document, or missing or empty
GivenNotes ==
    [source_doc_id : {<<>>} \cup {generate_unique_doc_id(Vault[i]) : i \in {1, 3}},
     vec : {"vec", "null"}]

InitSaveAtomic ==
    /\ corpus = <<>>
    /\ null_ok \in BOOLEAN
    /\ tables \in {{}, {"atomic_notes"}}
    /\ raw = <<>>
    /\ atomic = <<>>
    /\ new_documents = <<>>
    /\ unprocessed_docs = <<>>
    /\ ci = 1
    /\ atomic_notes \in UNION {[1..n -> GivenNotes] : n \in 1..MaxBatch}
    /\ k = 1
    /\ row = NoRow
    /\ ret = <<>>
    /\ runs = 0
    /\ interrupted = FALSE
    /\ extracted = {}
    /\ again = {}
    /\ notes_at_start = 0
    /\ saved = FALSE
    /\ pending = {}
    /\ cycled = {}
    /\ NoStage
    /\ NoCall
    /\ pc = "save_atomic"

NextSaveAtomic ==
    \/ SaveAtomicNote
    \/ SaveAtomicNoteRaises

SpecSaveAtomic == InitSaveAtomic /\ [][NextSaveAtomic]_vars

\* C17: every atomic note in the store carries at least one source
\* document id, save_atomic_notes refusing a note that has none.
C17_AtomicNoteHasSource ==
    \A i \in 1..Len(atomic) : Len(atomic[i].source_doc_ids) >= 1

----------------------------------------------------------------------------
(* Properties of the clean notes, checked under SpecDistill *)

\* C18: every clean note in the store has a provenance list that is not
\* empty and names only atomic notes of the store, when it is saved and in
\* every later state.
C18_ProvenanceExists ==
    \A i \in 1..Len(clean) :
        /\ clean[i].atomic_note_ids # <<>>
        /\ Range(clean[i].atomic_note_ids) \subseteq {atomic[j].id : j \in 1..Len(atomic)}

\* a clean note was saved and an atomic note was added to the store later
C18_Witness ==
    /\ clean # <<>>
    /\ grown
    /\ Len(atomic) > Len(clean[1].atomic_note_ids)

----------------------------------------------------------------------------
(* storage.py 402-443: update_clean_note called between distillation runs *)

\* a note handed to update_clean_note: the id of a clean note or another
\* id, the edited text and title, and an embedding that is a vector, None
\* or not there
GivenEdits ==
    [id : 1..3, text : {"edited"}, title : {"renamed"},
     vec : {"vec", "null", "absent"}]

\* storage.py 416: table.search().where(id = ...)
get_clean_rows(note_id) ==
    {clean[i] : i \in {j \in 1..Len(clean) : clean[j].id = note_id}}

\* the note written as a new row, next to the row it had
update_as_new_note(note, now) ==
    /\ note.vec # "absent"
    /\ IF "clean_notes" \notin tables \/ get_clean_rows(note.id) = {}
       THEN UNCHANGED clean
       ELSE /\ Accepts(note.vec)
            /\ clean' = Append(clean, CleanItem(note.id, note, <<>>, now, now, TRUE))

\* update_clean_note(note) returning: nothing happens without the table or
\* the row, else the row is deleted and added again
update_clean_note(note, now) ==
    /\ note.vec # "absent"
    /\ IF "clean_notes" \notin tables \/ get_clean_rows(note.id) = {}
       THEN UNCHANGED clean
       ELSE /\ Accepts(note.vec)
            /\ \E r \in get_clean_rows(note.id) :
                  clean' = Append(DeleteById(clean, note.id),
                                  CleanItem(note.id, note, r.atomic_note_ids,
                                            r.created_time, now, TRUE))

\* update_clean_note(note) raising: the ValueError of the missing embedding,
\* or table.add refusing the row after table.delete removed the old one
update_clean_note_raises(note) ==
    \/ /\ note.vec = "absent"
       /\ UNCHANGED clean
    \/ /\ note.vec # "absent"
       /\ "clean_notes" \in tables
       /\ get_clean_rows(note.id) # {}
       /\ ~Accepts(note.vec)
       /\ clean' = DeleteById(clean, note.id)

UpdateCleanNote ==
    /\ pc \in StageStopped
    /\ \E note \in GivenEdits, now \in Now : update_clean_note(note, now)
    /\ UNCHANGED <<pipe, null_ok, tables, atomic, pc, k, runs, method, geometry,
                   clusters, candidates, already_distilled_ids, to_distill,
                   distilled_notes, prev_complete, grown, same_notes, saved_now>>

UpdateCleanNoteRaises ==
    /\ pc \in StageStopped
    /\ \E note \in GivenEdits : update_clean_note_raises(note)
    /\ UNCHANGED <<pipe, null_ok, tables, atomic, pc, k, runs, method, geometry,
                   clusters, candidates, already_distilled_ids, to_distill,
                   distilled_notes, prev_complete, grown, same_notes, saved_now>>

\* main.py 127: a distillation run calls distill_knowledge
CallDistiller ==
    /\ pc \in StageStopped
    /\ runs < MaxRuns
    /\ runs' = runs + 1
    /\ to_distill' \in {<<c>> : c \in GivenClusters}
    /\ distilled_notes' = <<>>
    /\ saved_now' = 0
    /\ output' = [calls |-> 0]
    /\ k' = 1
    /\ pc' = "distill_knowledge"
    /\ UNCHANGED <<env, store, new_documents, unprocessed_docs, ci, atomic_notes,
                   row, ret, interrupted, extracted, again, notes_at_start, saved,
                   pending, cycled, input, clean, method, geometry, clusters,
                   candidates, already_distilled_ids, prev_complete, grown,
                   same_notes>>

\* a store after a distillation run that saved one clean note
InitEdit ==
    /\ corpus = SubSeq(Vault, 1, 1)
    /\ null_ok \in BOOLEAN
    /\ tables = {"raw_documents", "atomic_notes", "clean_notes"}
    /\ raw = <<[id |-> generate_unique_doc_id(Vault[1]), text |-> Vault[1].text,
                is_processed |-> TRUE, vec |-> "vec"]>>
    /\ atomic = [i \in 1..3 |->
                    [id |-> i, source_doc_ids |-> <<generate_unique_doc_id(Vault[1])>>]]
    /\ clean = <<CleanItem(1, [text |-> "synthesis", title |-> "cluster_theme",
                               vec |-> "vec"], <<1, 2>>, 0, 0, FALSE)>>
    /\ pc = "stage_done"
    /\ new_documents = <<>>
    /\ unprocessed_docs = <<>>
    /\ ci = 1
    /\ atomic_notes = <<>>
    /\ k = 1
    /\ row = NoRow
    /\ ret = <<>>
    /\ runs = 1
    /\ interrupted = FALSE
    /\ extracted = {generate_unique_doc_id(Vault[1])}
    /\ again = {}
    /\ notes_at_start = 0
    /\ saved = FALSE
    /\ pending = {}
    /\ cycled = {generate_unique_doc_id(Vault[1])}
    /\ method = "cluster"
    /\ geometry = NoGeometry
    /\ clusters = <<>>
    /\ candidates = <<>>
    /\ already_distilled_ids = {}
    /\ to_distill = <<>>
    /\ distilled_notes = <<>>
    /\ prev_complete = FALSE
    /\ grown = FALSE
    /\ same_notes = FALSE
    /\ saved_now = 0
    /\ input = <<>>
    /\ output = [calls |-> 0]

NextEdit ==
    \/ UpdateCleanNote
    \/ UpdateCleanNoteRaises
    \/ CallDistiller
    \/ SkipSmallCluster
    \/ AnalyseCluster
    \/ AnalyseClusterRaises
    \/ EmbedDistilled
    \/ SaveCleanNote
    \/ SaveCleanNoteRaises
    \/ Visualize

SpecEdit == InitEdit /\ [][NextEdit]_vars

\* what update_clean_note(note) leaves of the clean note r and of the
\* other clean notes
Updated(note, r) ==
    LET same == {j \in 1..Len(clean') : clean'[j].id = note.id} IN
    /\ Cardinality(same) = 1
    /\ \A j \in same :
          /\ clean'[j].atomic_note_ids = r.atomic_note_ids
          /\ clean'[j].created_time = r.created_time
          /\ clean'[j].text = note.text
          /\ clean'[j].title = note.title
          /\ clean'[j].vec = note.vec
          /\ clean'[j].is_user_edited
    /\ DeleteById(clean', note.id) = DeleteById(clean, note.id)

\* C19: update_clean_note on a clean note of the store, once it returns,
\* has kept the provenance list and the creation time of the note, has
\* replaced its text, title and embedding by the given ones, has set
\* is_user_edited, has left the other clean notes as they were, and leaves
\* one record with that id.
C19_UpdateKeepsProvenance ==
    [][\A note \in GivenEdits, now \in 0..MaxClock :
          \A r \in get_clean_rows(note.id) :
              (pc \in StageStopped /\ pc' = pc /\ update_clean_note(note, now))
                  => Updated(note, r)]_vars

\* a clean note was updated at a later second than it was created, next to
\* a clean note that was not
C19_Witness ==
    /\ Len(clean) = 2
    /\ \E i, j \in 1..2 :
          /\ clean[i].is_user_edited
          /\ clean[i].text = "edited"
          /\ clean[i].atomic_note_ids # <<>>
          /\ clean[i].created_time < clean[i].last_modified_time
          /\ ~clean[j].is_user_edited

\* C20: a clean note whose is_user_edited is set is in the store with the
\* flag set in every later state, and a distillation run leaves it as it is.
C20_UserEditSticky ==
    [][\A i \in 1..Len(clean) :
          clean[i].is_user_edited =>
              /\ \E j \in 1..Len(clean') :
                    clean'[j].id = clean[i].id /\ clean'[j].is_user_edited
              /\ (pc \notin StageStopped \/ pc' # pc) =>
                    \E j \in 1..Len(clean') : clean'[j] = clean[i]]_vars

----------------------------------------------------------------------------
(* Properties of the raw tier, checked under Spec *)

\* C21: a raw document that was saved stays in the raw tier, as one record
\* with its id, also when the run was interrupted inside
\* mark_raw_document_processed. Every document handed to the extractor was
\* read from the raw tier, so it must be there when the run has stopped.
C21_RawRecordKept ==
    pc \in Stopped =>
        \A doc_id \in extracted : Cardinality(get_raw_document(doc_id)) = 1

----------------------------------------------------------------------------
(* clusterer.py 95-173: cluster_documents called on the atomic notes *)

\* number of documents a call is followed for
MaxDocs == 6

\* clusterer.py 122: num_documents <= 5 takes the agglomerative path
SmallDataset == 5

\* the labels fit_predict gives, counted from the noise label: 0 stands for
\* the label -1 of HDBSCAN, 1 and 2 for the clusters 0 and 1
Labels == 0..2

\* whether the call raises. main.py 71 passes store=, which clusterer.py 95
\* does not take. On the agglomerative path fit_predict refuses a single
\* sample, and the build's library may not know the argument affinity=.
cluster_documents_raises(via, n, affinity_ok) ==
    \/ via = "main"
    \/ n >= 1 /\ n <= SmallDataset /\ (n < 2 \/ ~affinity_ok)

CallClusterDocuments ==
    /\ pc = "call"
    /\ ~cluster_documents_raises(input.via, Len(atomic), input.affinity_ok)
    /\ output' = [raised |-> FALSE, groups |-> GroupByLabel(input.labels)]
    /\ pc' = "returned"
    /\ UNCHANGED <<rest, input>>

CallClusterDocumentsRaises ==
    /\ pc = "call"
    /\ cluster_documents_raises(input.via, Len(atomic), input.affinity_ok)
    /\ output' = [raised |-> TRUE, groups |-> <<>>]
    /\ pc' = "returned"
    /\ UNCHANGED <<rest, input>>

\* the atomic notes of the store are what main hands to cluster_documents
InitCluster ==
    /\ corpus = <<>>
    /\ null_ok = FALSE
    /\ tables = {"raw_documents", "atomic_notes"}
    /\ raw = <<>>
    /\ \E n \in 0..MaxDocs :
          /\ atomic = [i \in 1..n |->
                          [id |-> i,
                           source_doc_ids |-> <<generate_unique_doc_id(Vault[1])>>]]
          /\ input \in [via : IF n = 0 THEN {"direct"} ELSE {"main", "direct"},
                        labels : [1..n -> Labels],
                        affinity_ok : BOOLEAN]
    /\ new_documents = <<>>
    /\ unprocessed_docs = <<>>
    /\ ci = 1
    /\ atomic_notes = <<>>
    /\ k = 1
    /\ row = NoRow
    /\ ret = <<>>
    /\ runs = 0
    /\ interrupted = FALSE
    /\ extracted = {}
    /\ again = {}
    /\ notes_at_start = 0
    /\ saved = FALSE
    /\ pending = {}
    /\ cycled = {}
    /\ NoStage
    /\ output = <<>>
    /\ pc = "call"

NextCluster ==
    \/ CallClusterDocuments
    \/ CallClusterDocumentsRaises

SpecCluster == InitCluster /\ [][NextCluster]_vars

\* every document is in exactly one group and no group is empty
IsPartition(groups) ==
    /\ \A g \in 1..Len(groups) : groups[g] # <<>>
    /\ \A i \in 1..Len(atomic) :
          Cardinality({<<g, m>> \in UNION {{<<g, m>> : m \in 1..Len(groups[g])} :
                                              g \in 1..Len(groups)} :
                          groups[g][m] = atomic[i].id}) = 1

\* C22: cluster_documents returns a partition of its input, the noise
\* documents in a group of their own, and does not raise for 5 documents
\* or fewer.
C22_ClusterPartition ==
    pc = "returned" =>
        /\ Len(atomic) <= SmallDataset => ~output.raised
        /\ ~output.raised => IsPartition(output.groups)

----------------------------------------------------------------------------
(* storage.py 734-759: get_already_distilled_note_ids called on a store *)

\* sizes of the clean tier up to which every size is followed
MaxSmall == 50

\* the sizes of the clean tier: the small ones and those around the limit
\* of the query
CleanSizes == 0..MaxSmall \cup {QueryLimit - 1, QueryLimit, QueryLimit + 1}

CallGetAlreadyDistilledNoteIds ==
    /\ pc = "call"
    /\ output' = get_already_distilled_note_ids
    /\ pc' = "returned"
    /\ UNCHANGED <<rest, input>>

\* a store whose n clean notes were each distilled from two atomic notes,
\* the clusters overlapping (stride 1) or not (stride 2)
InitDistilledIds ==
    /\ corpus = <<>>
    /\ null_ok = FALSE
    /\ tables = {"raw_documents", "atomic_notes", "clean_notes"}
    /\ raw = <<>>
    /\ \E n \in CleanSizes, stride \in {1, 2} :
          /\ input = [n |-> n, stride |-> stride]
          /\ atomic = [i \in 1..(stride * n + 1) |->
                          [id |-> i,
                           source_doc_ids |-> <<generate_unique_doc_id(Vault[1])>>]]
          /\ clean = [i \in 1..n |->
                         CleanItem(i, [text |-> "synthesis", title |-> "cluster_theme",
                                       vec |-> "vec"],
                                   <<stride * (i - 1) + 1, stride * (i - 1) + 2>>,
                                   0, 0, FALSE)]
    /\ new_documents = <<>>
    /\ unprocessed_docs = <<>>
    /\ ci = 1
    /\ atomic_notes = <<>>
    /\ k = 1
    /\ row = NoRow
    /\ ret = <<>>
    /\ runs = 0
    /\ interrupted = FALSE
    /\ extracted = {}
    /\ again = {}
    /\ notes_at_start = 0
    /\ saved = FALSE
    /\ pending = {}
    /\ cycled = {}
    /\ method = "cluster"
    /\ geometry = NoGeometry
    /\ clusters = <<>>
    /\ candidates = <<>>
    /\ already_distilled_ids = {}
    /\ to_distill = <<>>
    /\ distilled_notes = <<>>
    /\ prev_complete = FALSE
    /\ grown = FALSE
    /\ same_notes = FALSE
    /\ saved_now = 0
    /\ output = <<>>
    /\ pc = "call"

NextDistilledIds == CallGetAlreadyDistilledNoteIds

SpecDistilledIds == InitDistilledIds /\ [][NextDistilledIds]_vars

\* C23: get_already_distilled_note_ids returns the union of the provenance
\* lists of all clean notes of the store, whatever their number.
C23_AllProvenanceReturned ==
    pc = "returned" =>
        output = UNION {Range(clean[i].atomic_note_ids) : i \in 1..Len(clean)}

----------------------------------------------------------------------------
(* atomic_extractor.py 42-90, 147-287 and voice_note_extractor.py 260-313:  *)
(* the fallbacks of extract_section_ideas and deduplicate_ideas and what    *)
(* they write to the error log                                              *)

\* number of ideas handed to deduplicate_ideas
MaxDedup == 2

\* log_json_error(error_type, response_text, ...): the entry appended to
\* the error log. response_text is the raw completion ("response.text"),
\* the head of the section ("section[:200]") or the message of the
\* exception ("str(e)")
LogEntry(error_type, response_text) ==
    [error_type |-> error_type, response_text |-> response_text]

\* atomic_extractor.py 86-90: what clean_llm_json_response logs
json_parsing_log(completion) ==
    IF json_loads(completion.body) = "JSONDecodeError"
    THEN <<LogEntry("json_parsing", "response.text")>>
    ELSE <<>>

\* atomic_extractor.py 187-206: what extract_section_ideas has logged when
\* it returns. len() of a number raises TypeError inside the try block.
section_error_log(first) ==
    IF first = LLMRaises
    THEN <<LogEntry("section_extraction", "section[:200]")>>
    ELSE json_parsing_log(first)
         \o (IF Truthy(clean_llm_json_response(first))
                /\ ~HasLen(clean_llm_json_response(first))
             THEN <<LogEntry("section_extraction", "section[:200]")>>
             ELSE <<>>)

\* the result of a call: what was returned, where it came from (the
\* completion, the fallback idea, the input list), and the error log
Result(raised, src, json, ideas, error_log) ==
    [raised |-> raised, src |-> src, json |-> json, ideas |-> ideas,
     error_log |-> error_log]

\* atomic_extractor.py 226-287: ideas_context is built before the try block
\* and raises KeyError on an idea without title; the completion and its
\* parsing are inside
backend_deduplicate_ideas(all_ideas, completion) ==
    IF all_ideas = <<>> THEN Result(FALSE, "empty", "empty_list", <<>>, <<>>)
    ELSE IF "bad" \in Range(all_ideas) THEN Result(TRUE, "none", "", <<>>, <<>>)
    ELSE IF completion = LLMRaises
    THEN Result(FALSE, "input", "ideas", all_ideas,
                <<LogEntry("deduplication", "str(e)")>>)
    ELSE IF Truthy(clean_llm_json_response(completion))
    THEN Result(FALSE, "completion", clean_llm_json_response(completion), <<>>,
                json_parsing_log(completion))
    ELSE Result(FALSE, "input", "ideas", all_ideas, json_parsing_log(completion))

\* voice_note_extractor.py 260-313: the completion is asked for before the
\* try block; json.loads is given the whole completion, fence included
voice_deduplicate_ideas(all_ideas, completion) ==
    IF all_ideas = <<>> THEN Result(FALSE, "empty", "empty_list", <<>>, <<>>)
    ELSE IF "bad" \in Range(all_ideas) THEN Result(TRUE, "none", "", <<>>, <<>>)
    ELSE IF completion = LLMRaises THEN Result(TRUE, "none", "", <<>>, <<>>)
    ELSE IF completion.fenced \/ json_loads(completion.body) = "JSONDecodeError"
    THEN Result(FALSE, "input", "ideas", all_ideas, <<>>)
    ELSE Result(FALSE, "completion", json_loads(completion.body), <<>>, <<>>)

CallExtractSectionIdeasLogged ==
    /\ pc = "call"
    /\ input.op = "extract_section_ideas"
    /\ LET r == backend_extract_section_ideas(input.section, input.completion)
       IN  output' = Result(r.raised, r.src, r.json, <<>>,
                            section_error_log(input.completion))
    /\ pc' = "returned"
    /\ UNCHANGED <<rest, input>>

CallBackendDeduplicateIdeas ==
    /\ pc = "call"
    /\ input.op = "deduplicate_ideas"
    /\ output' = backend_deduplicate_ideas(input.all_ideas, input.completion)
    /\ pc' = "returned"
    /\ UNCHANGED <<rest, input>>

CallVoiceDeduplicateIdeas ==
    /\ pc = "call"
    /\ input.op = "voice_deduplicate_ideas"
    /\ output' = voice_deduplicate_ideas(input.all_ideas, input.completion)
    /\ pc' = "returned"
    /\ UNCHANGED <<rest, input>>

InitFallback ==
    /\ Parked
    /\ pc = "call"
    /\ input \in [op : {"extract_section_ideas"},
                  section : {Text(n) : n \in SectionLens},
                  all_ideas : {<<>>},
                  completion : Completions]
             \cup [op : {"deduplicate_ideas", "voice_deduplicate_ideas"},
                   section : {<<>>},
                   all_ideas : UNION {[1..n -> IdeaKinds] : n \in 0..MaxDedup},
                   completion : Completions]
    /\ output = <<>>

NextFallback ==
    \/ CallExtractSectionIdeasLogged
    \/ CallBackendDeduplicateIdeas
    \/ CallVoiceDeduplicateIdeas

SpecFallback == InitFallback /\ [][NextFallback]_vars

\* the call answered with a completion and returned the fallback idea, or
\* the input list, in place of what the completion held
FellBackOnCompletion ==
    /\ pc = "returned"
    /\ input.op \in {"extract_section_ideas", "deduplicate_ideas"}
    /\ input.completion # LLMRaises
    /\ output.src \in {"fallback", "input"}

\* C24: when extraction or deduplication falls back because the completion
\* could not be used, the raw text of the completion is in the error log.
C24_FallbackLogsRawText ==
    FellBackOnCompletion =>
        \E i \in 1..Len(output.error_log) :
            output.error_log[i].response_text = "response.text"

\* C25: deduplicate_ideas, when the completion call raises or the
\* completion cannot be parsed, returns the list it was given and does not
\* raise.
C25_DeduplicateFailOpen ==
    (/\ pc = "returned"
     /\ input.op \in {"deduplicate_ideas", "voice_deduplicate_ideas"}
     /\ input.all_ideas # <<>>
     /\ "bad" \notin Range(input.all_ideas)
     /\ \/ input.completion = LLMRaises
        \/ json_loads(input.completion.body) = "JSONDecodeError")
    => /\ ~output.raised
       /\ output.src = "input"
       /\ output.ideas = input.all_ideas

----------------------------------------------------------------------------
(* clusterer.py 67-93: _adjust_parameters as cluster_documents calls it *)

\* number of documents the parameters are adjusted for
MaxCount == 24

\* the target values a clusterer is configured with: the defaults 30, 15,
\* 5 and 2 of clusterer.py 30-34, the 1 of main.py 70, and small ones
Targets == {1, 2, 3, 5, 15, 30}

Min(a, b) == IF a < b THEN a ELSE b

\* the parameters with the floor of 2 alone, the cap on the fraction of the
\* documents left out
floor_parameters(num_documents, cfg) ==
    [n_components |-> Max({2, cfg.umap_n_components}),
     n_neighbors |-> Max({2, cfg.umap_n_neighbors}),
     min_cluster_size |-> Max({2, cfg.hdbscan_min_cluster_size}),
     min_samples |-> Max({1, cfg.hdbscan_min_samples})]

\* clusterer.py 67-93
adjust_parameters(num_documents, cfg) ==
    [n_components |-> Max({2, Min(num_documents \div 2, cfg.umap_n_components)}),
     n_neighbors |-> Max({2, Min(num_documents \div 3, cfg.umap_n_neighbors)}),
     min_cluster_size |->
         Max({2, Min(num_documents \div 4, cfg.hdbscan_min_cluster_size)}),
     min_samples |-> Max({1, Min(num_documents \div 5, cfg.hdbscan_min_samples)})]

\* clusterer.py 113 and 122: the parameters of the call, and its path
CallAdjustParameters ==
    /\ pc = "call"
    /\ output' = [parameters |-> adjust_parameters(input.num_documents, input.cfg),
                  path |-> IF input.num_documents <= SmallDataset
                           THEN "agglomerative" ELSE "umap"]
    /\ pc' = "returned"
    /\ UNCHANGED <<rest, input>>

InitAdjust ==
    /\ Parked
    /\ pc = "call"
    /\ input \in [num_documents : 1..MaxCount,
                  cfg : [umap_n_components : {30}, umap_n_neighbors : Targets,
                         hdbscan_min_cluster_size : Targets,
                         hdbscan_min_samples : {2}]]
    /\ output = <<>>

NextAdjust == CallAdjustParameters

SpecAdjust == InitAdjust /\ [][NextAdjust]_vars

\* C26 as stated: on the UMAP path the neighbourhood size n has
\* 2 <= n <= N/3 and the minimum cluster size m has 2 <= m <= N/4.
C26_CappedAndFloored ==
    (pc = "returned" /\ output.path = "umap") =>
        /\ 2 <= output.parameters.n_neighbors
        /\ 3 * output.parameters.n_neighbors <= input.num_documents
        /\ 2 <= output.parameters.min_cluster_size
        /\ 4 * output.parameters.min_cluster_size <= input.num_documents

\* C26, amended: on the UMAP path 2 <= n <= N/3, and the minimum cluster
\* size m is max(2, min(N div 4, target)): 2 <= m <= N/4 from 8 documents
\* on, and m = 2 for 6 and 7 documents, where the floor is above N/4.
C26_FloorOverCap ==
    (pc = "returned" /\ output.path = "umap") =>
        /\ 2 <= output.parameters.n_neighbors
        /\ 3 * output.parameters.n_neighbors <= input.num_documents
        /\ 2 <= output.parameters.min_cluster_size
        /\ IF input.num_documents >= 8
           THEN 4 * output.parameters.min_cluster_size <= input.num_documents
           ELSE output.parameters.min_cluster_size = 2

\* the parameters of 6 documents with the default target of 5: the cap is
\* 1, and the floor makes the minimum cluster size 2
C26_Witness ==
    /\ pc = "returned"
    /\ output.path = "umap"
    /\ input.num_documents = 6
    /\ input.cfg.hdbscan_min_cluster_size = 5
    /\ output.parameters.min_cluster_size = 2

----------------------------------------------------------------------------
(* embedder.py 49-69 and 74-116: one document embedded, in chunks when its  *)
(* text is long                                                             *)

\* embedder.py 35
MAX_CHARS == 8000

\* number of chunks a text is followed to
MaxChunks == 3

\* a text of n characters, each standing for its position
Positions(n) == [i \in 1..n |-> i]

\* the lengths of the texts: one character, and the lengths around the
\* multiples of MAX_CHARS
TextLens ==
    {1} \cup UNION {{c * MAX_CHARS - 1, c * MAX_CHARS, c * MAX_CHARS + 1} :
                       c \in 1..(MaxChunks - 1)}

\* what get_text_embedding does with a text: it raises, or returns a vector
Outcomes ==
    {[raises |-> TRUE, vec |-> <<0, 0>>]}
        \cup [raises : {FALSE}, vec : {<<0, 4>>, <<2, 2>>}]

\* embedder.py 90: range(0, len(text), max_chars) has this many elements
NumChunks(len, max_chars) == (len + max_chars - 1) \div max_chars

\* embedder.py 90: [text[i:i+max_chars] for i in range(0, len(text), max_chars)]
Chunks(text, max_chars) ==
    [j \in 1..NumChunks(Len(text), max_chars) |->
        SubSeq(text, (j - 1) * max_chars + 1, Min(j * max_chars, Len(text)))]

\* embedder.py 97-105: the embeddings of the chunks whose call returned
RECURSIVE chunk_embeddings(_)
chunk_embeddings(calls) ==
    IF calls = <<>> THEN <<>>
    ELSE (IF Head(calls).raises THEN <<>> ELSE <<Head(calls).vec>>)
             \o chunk_embeddings(Tail(calls))

RECURSIVE SumOf(_, _)
SumOf(vectors, d) ==
    IF vectors = <<>> THEN 0 ELSE Head(vectors)[d] + SumOf(Tail(vectors), d)

\* sum(values) / len(values) for values in zip(*vectors): the quotient is
\* kept as the pair of the sums and the divisor
Average(vectors) ==
    [num |-> <<SumOf(vectors, 1), SumOf(vectors, 2)>>, den |-> Len(vectors)]

NoEmbedding == [num |-> <<0, 0>>, den |-> 0]

\* the average over all the chunks, those that failed counted in the divisor
embed_large_document_over_all(calls) ==
    IF chunk_embeddings(calls) = <<>>
    THEN [raised |-> TRUE, embedding |-> NoEmbedding]
    ELSE [raised |-> FALSE,
          embedding |-> [num |-> Average(chunk_embeddings(calls)).num,
                         den |-> Len(calls)]]

\* embedder.py 74-116: calls holds what the call of each chunk does
embed_large_document(calls) ==
    IF chunk_embeddings(calls) = <<>>
    THEN [raised |-> TRUE, embedding |-> NoEmbedding]
    ELSE [raised |-> FALSE, embedding |-> Average(chunk_embeddings(calls))]

\* embedder.py 49-69 for one valid document
CallEmbedDocument ==
    /\ pc = "call"
    /\ LET text == Positions(input.len)
           large == Len(text) > MAX_CHARS
           chunks == IF large THEN Chunks(text, MAX_CHARS) ELSE <<>>
           r == IF large THEN embed_large_document(input.calls)
                ELSE IF input.calls[1].raises
                THEN [raised |-> TRUE, embedding |-> NoEmbedding]
                ELSE [raised |-> FALSE,
                      embedding |-> [num |-> input.calls[1].vec, den |-> 1]]
       IN  output' = [chunks |-> chunks,
                      n_calls |-> IF large THEN Len(chunks) ELSE 1,
                      embedding |-> IF r.raised THEN "null" ELSE "vec",
                      vector |-> r.embedding,
                      embedding_error |-> IF r.raised THEN "str(e)" ELSE ""]
    /\ pc' = "returned"
    /\ UNCHANGED <<rest, input>>

InitEmbedLarge ==
    /\ Parked
    /\ pc = "call"
    /\ \E len \in TextLens :
          input \in [len : {len},
                     calls : [1..(IF len > MAX_CHARS THEN NumChunks(len, MAX_CHARS)
                                  ELSE 1) -> Outcomes]]
    /\ output = <<>>

NextEmbedLarge == CallEmbedDocument

SpecEmbedLarge == InitEmbedLarge /\ [][NextEmbedLarge]_vars

\* indices of the calls that returned a vector
Succeeded == {j \in DOMAIN input.calls : ~input.calls[j].raises}

RECURSIVE SumOver(_, _)
SumOver(S, d) ==
    IF S = {} THEN 0
    ELSE LET j == CHOOSE x \in S : TRUE
         IN  input.calls[j].vec[d] + SumOver(S \ {j}, d)

\* C27: a text longer than MAX_CHARS is cut into consecutive chunks of
\* MAX_CHARS characters (the last one may be shorter) that put together are
\* the text; each chunk is embedded by a call of its own; the vector is the
\* element-wise average over the chunks whose call returned, and the item
\* fails exactly when no call returned. A text of at most MAX_CHARS
\* characters is embedded by one call, without chunks.
C27_LargeDocumentAverage ==
    pc = "returned" =>
        /\ IF input.len > MAX_CHARS
           THEN /\ Flatten(output.chunks) = Positions(input.len)
                /\ \A j \in 1..Len(output.chunks) :
                      /\ output.chunks[j] # <<>>
                      /\ j < Len(output.chunks) => Len(output.chunks[j]) = MAX_CHARS
                      /\ Len(output.chunks[j]) <= MAX_CHARS
                /\ output.n_calls = Len(output.chunks)
           ELSE /\ output.chunks = <<>>
                /\ output.n_calls = 1
        /\ output.embedding = "null" <=> Succeeded = {}
        /\ output.embedding = "null" => output.embedding_error # ""
        /\ output.embedding = "vec" =>
              /\ output.vector.den = Cardinality(Succeeded)
              /\ output.vector.num = <<SumOver(Succeeded, 1), SumOver(Succeeded, 2)>>

\* a text of three chunks, the call of the second one raising: the vector
\* is the average of the two others
C27_Witness ==
    /\ pc = "returned"
    /\ input.len = 2 * MAX_CHARS + 1
    /\ Len(output.chunks) = 3
    /\ Len(output.chunks[3]) = 1
    /\ input.calls[2].raises
    /\ ~input.calls[1].raises
    /\ ~input.calls[3].raises
    /\ output.vector.den = 2

----------------------------------------------------------------------------
(* storage.py 670-732: get_all_atomic_notes, page by page                   *)

\* storage.py 685
batch_size == 1000

\* number of full pages a table is followed to
MaxPages == 2

\* the sizes of the atomic notes table: the small ones and those around the
\* multiples of batch_size
TableSizes ==
    0..MaxSmall
        \cup UNION {{c * batch_size - 1, c * batch_size, c * batch_size + 1} :
                       c \in 1..MaxPages}

\* table.search().limit(n).offset(offset): the rows after the first offset
\* ones, n of them at most
Page(rows, n, offset) ==
    SubSeq(rows, offset + 1, IF Len(rows) < offset + n THEN Len(rows) ELSE offset + n)

\* the offset moves one row further than the page read
offset_past_page(offset, results) == offset + Len(results) + 1

\* storage.py 726: offset += len(results)
next_offset(offset, results) == offset + Len(results)

\* storage.py 698-723: the Document of a row
RowDocument(r) == [doc_id |-> r.id, source_doc_ids |-> r.source_doc_ids]

\* storage.py 678-680: no table, nothing to read
GetAllNoTable ==
    /\ pc = "call"
    /\ "atomic_notes" \notin tables
    /\ output' = [offset |-> 0, all_documents |-> <<>>, queries |-> 0]
    /\ pc' = "returned"
    /\ UNCHANGED <<rest, input>>

\* storage.py 682-687
GetAllOpen ==
    /\ pc = "call"
    /\ "atomic_notes" \in tables
    /\ output' = [offset |-> 0, all_documents |-> <<>>, queries |-> 0]
    /\ pc' = "page"
    /\ UNCHANGED <<rest, input>>

\* storage.py 689-729: one turn of the loop on a page that has rows
GetAllPage ==
    /\ pc = "page"
    /\ LET results == Page(atomic, batch_size, output.offset) IN
       /\ Len(results) # 0
       /\ output' = [offset |-> next_offset(output.offset, results),
                     all_documents |->
                         output.all_documents
                             \o [i \in 1..Len(results) |-> RowDocument(results[i])],
                     queries |-> output.queries + 1]
    /\ UNCHANGED <<rest, input, pc>>

\* storage.py 691-695 and 731-732: the page is empty, the loop is left
GetAllBreak ==
    /\ pc = "page"
    /\ Len(Page(atomic, batch_size, output.offset)) = 0
    /\ output' = [output EXCEPT !.queries = @ + 1]
    /\ pc' = "returned"
    /\ UNCHANGED <<rest, input>>

InitPages ==
    /\ corpus = <<>>
    /\ null_ok = FALSE
    /\ raw = <<>>
    /\ clean = <<>>
    /\ \E n \in TableSizes :
          /\ input = [n |-> n]
          /\ tables \in {T \in SUBSET {"raw_documents", "atomic_notes"} :
                            n > 0 => "atomic_notes" \in T}
          /\ atomic = [i \in 1..n |->
                          [id |-> i,
                           source_doc_ids |-> <<generate_unique_doc_id(Vault[1])>>]]
    /\ new_documents = <<>>
    /\ unprocessed_docs = <<>>
    /\ ci = 1
    /\ atomic_notes = <<>>
    /\ k = 1
    /\ row = NoRow
    /\ ret = <<>>
    /\ runs = 0
    /\ interrupted = FALSE
    /\ extracted = {}
    /\ again = {}
    /\ notes_at_start = 0
    /\ saved = FALSE
    /\ pending = {}
    /\ cycled = {}
    /\ method = "cluster"
    /\ geometry = NoGeometry
    /\ clusters = <<>>
    /\ candidates = <<>>
    /\ already_distilled_ids = {}
    /\ to_distill = <<>>
    /\ distilled_notes = <<>>
    /\ prev_complete = FALSE
    /\ grown = FALSE
    /\ same_notes = FALSE
    /\ saved_now = 0
    /\ output = <<>>
    /\ pc = "call"


NextPages == GetAllNoTable \/ GetAllOpen \/ GetAllPage \/ GetAllBreak

SpecPages == InitPages /\ [][NextPages]_vars

\* the call is a sequential loop: a step that can be taken is taken
SpecPagesFair == SpecPages /\ WF_vars(NextPages)

\* C28: get_all_atomic_notes returns, whatever the size of the table, and
\* what it returns is the rows of the table, each one once, in the order of
\* the table: no row is skipped or read twice where a page ends, also when
\* the table is empty or holds a whole number of pages.
C28_PagesCoverTable ==
    /\ <>(pc = "returned")
    /\ [](pc = "returned" =>
             /\ output.all_documents = [i \in 1..Len(atomic) |-> RowDocument(atomic[i])]
             /\ output.all_documents =
                    [i \in 1..Len(get_all_atomic_notes) |->
                        RowDocument(get_all_atomic_notes[i])])

\* a table of exactly two full pages was read with three queries
C28_Witness ==
    /\ pc = "returned"
    /\ Len(atomic) = 2 * batch_size
    /\ output.queries = 3
    /\ Len(output.all_documents) = 2 * batch_size

----------------------------------------------------------------------------
(* storage.py 211-215 inside main.py 47-63, checked under Spec *)

\* C29: save_atomic_notes writes the notes of the list one by one, in the
\* order of the list. When the save of the k-th note raises, the k-1 notes
\* before it are the last rows of the table and stay there, the k-th and the
\* following ones are not written, the run ends without flagging a document
\* of the chunk, and every document of the chunk is in the work queue that
\* the following run reads from the store.
C29_PartialBatch ==
    [][/\ (pc = "save_atomic" /\ atomic' # atomic) =>
              /\ atomic' = Append(atomic,
                                  [id |-> Len(atomic) + 1,
                                   source_doc_ids |-> source_doc_ids(atomic_notes[k])])
              /\ \/ pc' = "save_atomic" /\ k' = k + 1
                 \/ pc' = "mark" /\ k = Len(atomic_notes)
       /\ (pc = "save_atomic" /\ pc' = "failed") =>
              /\ atomic' = atomic
              /\ raw' = raw
              /\ Len(atomic) >= k - 1
              /\ \A j \in 1..(k - 1) :
                    atomic[Len(atomic) - (k - 1) + j].source_doc_ids
                        = source_doc_ids(atomic_notes[j])
              /\ \A id \in Ids(Chunk) :
                    /\ ~Flagged(id)'
                    /\ id \in Ids(get_unprocessed_documents)'
       /\ (pc = "failed" /\ pc' # "failed" /\ get_unprocessed_documents # <<>>) =>
              (pc' \in {"save_raw", "get_unprocessed"} /\ store' = store)]_vars

\* the first run broke on the second note of its first chunk: one note is in
\* the table and both documents of the chunk wait for the following run
C29_Witness ==
    /\ pc = "failed"
    /\ runs = 1
    /\ Len(atomic) = 1
    /\ Len(get_unprocessed_documents) >= 2
    /\ \A i \in 1..Len(raw) : ~raw[i].is_processed

----------------------------------------------------------------------------
(* 02-augi-engine/scripts/models.py: DistilledNote and its dictionary form  *)

\* longest list of parent or sibling ids of a note
MaxLinks == 2

\* the lists of ids a note can carry
LinkLists == UNION {[1..n -> {"id_a", "id_b"}] : n \in 0..MaxLinks}

\* models.py 11-25: DistilledNote(text, parent_documents, sibling_notes,
\* is_user_edited, **kwargs); "x or []" of a list is the list
DistilledNote(text, doc_id, parent_documents, sibling_notes, is_user_edited) ==
    [text |-> text, doc_id |-> doc_id,
     parent_documents |-> IF parent_documents = <<>> THEN <<>> ELSE parent_documents,
     sibling_notes |-> IF sibling_notes = <<>> THEN <<>> ELSE sibling_notes,
     is_user_edited |-> is_user_edited]

\* models.py 27-47: is_user_edited is not a parameter and is not handed to
\* cls(...), which takes its default, False
from_document(doc, parent_documents, sibling_notes) ==
    DistilledNote(doc.text, doc.doc_id, parent_documents, sibling_notes, FALSE)

\* models.py 49-61: the dictionary of the base Document and the three
\* properties of the note
to_dict(note) ==
    [text |-> note.text, id_ |-> note.doc_id, class_name |-> "Document",
     parent_documents |-> note.parent_documents,
     sibling_notes |-> note.sibling_notes,
     is_user_edited |-> note.is_user_edited]

\* data.pop(key, default)
pop(data, key, default) == IF key \in DOMAIN data THEN data[key] ELSE default

\* Document.from_dict(data), data being what the three pops have left
Document_from_dict(data) == [text |-> data.text, doc_id |-> data.id_]

\* models.py 63-79: is_user_edited is popped, and then not used
from_dict(data) ==
    LET parent_documents == pop(data, "parent_documents", <<>>)
        sibling_notes == pop(data, "sibling_notes", <<>>)
        is_user_edited == pop(data, "is_user_edited", FALSE)
        doc == Document_from_dict(
                   [key \in DOMAIN data \ {"parent_documents", "sibling_notes",
                                           "is_user_edited"} |-> data[key]])
    IN  from_document(doc, parent_documents, sibling_notes)

\* DistilledNote.from_dict(note.to_dict())
CallRoundTrip ==
    /\ pc = "call"
    /\ output' = from_dict(to_dict(input))
    /\ pc' = "returned"
    /\ UNCHANGED <<rest, input>>

InitRoundTrip ==
    /\ Parked
    /\ pc = "call"
    /\ \E parent_documents \in LinkLists, sibling_notes \in LinkLists,
          is_user_edited \in BOOLEAN :
          input = DistilledNote(<<"t">>, "note_id", parent_documents, sibling_notes,
                                is_user_edited)
    /\ output = <<>>

NextRoundTrip == CallRoundTrip

SpecRoundTrip == InitRoundTrip /\ [][NextRoundTrip]_vars

\* C30: the note made by from_dict out of the dictionary of a note has the
\* parent documents, the sibling notes and the is_user_edited flag of that
\* note.
C30_RoundTrip ==
    pc = "returned" =>
        /\ output.parent_documents = input.parent_documents
        /\ output.sibling_notes = input.sibling_notes
        /\ output.is_user_edited = input.is_user_edited

============================================================================
